---- MODULE Spec2Model ----
(***************************************************************************)
(* Water-quality mapper: the source acquirer (WaterQualityCollector over   *)
(* WaterQualityAPIClient and the on-disk cache) and the risk scorers.      *)
(*                                                                         *)
(* Conventions of the model                                                *)
(*  - A pandas DataFrame is [isNone, cols, rows]; Python's None is NoneT.   *)
(*  - A cell of a pollutant column is one of the kinds                      *)
(*      "num" (int/float), "nan" (missing), "numstr" (numeric text),        *)
(*      "txt" (non-numeric text), "empty" ('').                             *)
(*  - The wall clock is counted in tenths of a second; the backup           *)
(*    timestamp '%Y%m%d_%H%M%S' is the clock cut to whole seconds.          *)
(*  - Floating-point values are fixed-point integers: a concentration is    *)
(*    in mg/L, a weighted index in hundredths.                              *)
(***************************************************************************)
EXTENDS Integers, Sequences, FiniteSets, TLC

VARIABLES
    pc,          \* position of collect_data(): idle, probe, fetch, backup, write_wq, write_st, load, done
    runs,        \* number of collect_data() calls started
    clock,       \* wall clock, tenths of a second
    remote,      \* the remote service's record list during this call
    day,         \* loop index of get_all_water_quality_data (current_date - start_date, days)
    all_data,    \* pd.concat of the day tables appended so far (NoneT: all_data == [])
    day_failed,  \* history: some daily request of this call returned None
    api_data,    \* collect_data's api_data
    success,     \* result of _update_csv_files: "none" (not called), "true", "false"
    result,      \* value returned by the last collect_data()
    wq_file,     \* data/raw/water_quality_data.csv
    st_file,     \* data/raw/measurement_stations.csv
    backup_dir,  \* data/backup: set of [name, content]
    local_csv,   \* the Local_Water_CSV legacy sources as _load_existing_csv last found them
    hist,        \* history of the current call (tiers tried, backups made, files written)
    sc,          \* scorer run: inputs and the outputs of the scoring paths
    pct,         \* a call of calculate_alert_level_by_percentile
    crd,         \* a call of a coordinate normalizer
    agg,         \* a run of a region aggregation
    trd,         \* a call of RiskCalculator.calculate_trend_analysis
    leg,         \* a call of WaterQualityCollector._load_local_csv_files
    loc          \* calls of find_region_by_coordinates

collectorVars == <<pc, runs, clock, remote, day, all_data, day_failed, api_data,
                   success, result, wq_file, st_file, backup_dir, local_csv, hist>>
scorerVars == <<sc>>
mapVars == <<pct, crd, agg, trd, leg, loc>>
vars == <<collectorVars, scorerVars, mapVars>>

\* Variables the collector's actions leave alone.
notCollector == <<scorerVars, mapVars>>
\* Variables the scorer's actions leave alone.
notScorer == <<collectorVars, mapVars>>
\* Variables a call of calculate_alert_level_by_percentile leaves alone.
notPct == <<collectorVars, scorerVars, crd, agg, trd, leg, loc>>
\* Variables a call of a coordinate normalizer leaves alone.
notCrd == <<collectorVars, scorerVars, pct, agg, trd, leg, loc>>
\* Variables a region aggregation leaves alone.
notAgg == <<collectorVars, scorerVars, pct, crd, trd, leg, loc>>
\* Variables a trend analysis leaves alone.
notTrd == <<collectorVars, scorerVars, pct, crd, agg, leg, loc>>
\* Variables a merge of the legacy sources leaves alone.
notLeg == <<collectorVars, scorerVars, pct, crd, agg, trd, loc>>
\* Variables a call of find_region_by_coordinates leaves alone.
notLoc == <<collectorVars, scorerVars, pct, crd, agg, trd, leg>>

(***************************************************************************)
(* Bounds                                                                  *)
(***************************************************************************)
\* collect_data() calls in one behaviour
MaxRuns == 2
\* largest phosphorus input of a scorer run, mg/L
MaxTp == 3
\* largest nitrogen input of a scorer run, mg/L
MaxTn == 216
\* largest population handed to the percentile classifier
MaxPop == 5
\* regions of one run of the map script
MaxRegions == 6
\* largest number of readings handed to a region aggregation
MaxReadings == 2
\* largest number of rows handed to the trend analysis
MaxTrendRows == 3
\* last measurement day of the rows handed to the trend analysis
MaxDay == 2
\* largest number of rows the legacy sources hold together
MaxLegacyRows == 2
\* northernmost latitude and easternmost longitude handed to
\* find_region_by_coordinates, in hundredths of a degree
MaxLat == 3900
MaxLon == 13000

(***************************************************************************)
(* Tables                                                                  *)
(***************************************************************************)
NoneT == [isNone |-> TRUE, cols |-> {}, rows |-> <<>>]
Table(cols, rows) == [isNone |-> FALSE, cols |-> cols, rows |-> rows]
\* DataFrame.empty
IsEmpty(t) == t.rows = <<>> \/ t.cols = {}

RECURSIVE SelectSeq2(_, _)
\* the rows of s whose index satisfies keep (a boolean sequence of the same length)
SelectSeq2(s, keep) ==
    IF s = <<>> THEN <<>>
    ELSE (IF Head(keep) THEN <<Head(s)>> ELSE <<>>) \o SelectSeq2(Tail(s), Tail(keep))

StationCols == {"addr", "latDgr", "lonDgr"}
IdCols == {"ptNo", "ptNm"}
PollutantCols == {"itemTp", "itemTn"}

(***************************************************************************)
(* Remote service (api_client.py)                                          *)
(***************************************************************************)
\* get_all_water_quality_data(days_back=30)
DaysBack == 30
\* day of the window on which the dated records of the record lists were measured
RecDay == 1

\* An <item> of the XML body: its child tags, the text of itemTp/itemTn
\* ("numstr", "txt" or "none" for an element without text) and the day of wmcymd
\* (a window day, or -1 for a date outside the window).
XmlItem(rec, tags, tp, tn, date) ==
    [rec |-> rec, pt |-> rec, tags |-> tags, tp |-> tp, tn |-> tn, date |-> date]

FullTags == IdCols \cup StationCols \cup PollutantCols \cup {"wmcymd"}

\* The record lists the service may hold.
RemoteDBs == {
    \* one dated record with numeric text
    <<XmlItem(1, FullTags, "numstr", "numstr", RecDay)>>,
    \* a record outside the window and a dated record without pollutant elements
    <<XmlItem(1, FullTags, "numstr", "numstr", -1),
      XmlItem(2, FullTags \ PollutantCols, "none", "none", RecDay)>>,
    \* the same without the station elements
    <<XmlItem(1, FullTags \ StationCols, "numstr", "numstr", -1),
      XmlItem(2, FullTags \ (StationCols \cup PollutantCols), "none", "none", RecDay)>>,
    \* a dated record without pollutant elements only
    <<XmlItem(2, FullTags \ PollutantCols, "none", "none", RecDay)>>,
    \* a dated record whose phosphorus is not a number
    <<XmlItem(1, FullTags, "txt", "numstr", RecDay)>>,
    \* a record without the wmcymd element
    <<XmlItem(1, FullTags \ {"wmcymd"}, "numstr", "numstr", -1)>>,
    \* no record
    <<>> }

\* What one HTTP exchange can be: a transport error or non-200 status
\* (RequestException), a body that is not XML (ParseError), a header with
\* resultCode other than '00', an envelope without body/items, or items.
ResponseKinds == {"neterr", "badxml", "apierr", "nobody", "items"}
Response(kind, items) == [kind |-> kind, items |-> items]

\* _parse_items: every child becomes a string, '' for an element without text.
ParseText(x) == IF x = "none" THEN "empty" ELSE x

_parse_items(items) ==
    [i \in 1..Len(items) |->
        [rec |-> items[i].rec, pt |-> items[i].pt, tags |-> items[i].tags,
         tp |-> ParseText(items[i].tp), tn |-> ParseText(items[i].tn),
         date |-> items[i].date]]

\* _make_api_request: [isNone, list]; every exception is caught and gives None.
_make_api_request(resp) ==
    IF resp.kind = "items"
    THEN [isNone |-> FALSE, list |-> _parse_items(resp.items)]
    ELSE [isNone |-> TRUE, list |-> <<>>]

\* `if data:` on the result of _make_api_request
Truthy(d) == ~d.isNone /\ d.list # <<>>

\* test_api_connection
test_api_connection(resp) == Truthy(_make_api_request(resp))

\* pd.DataFrame(list of dicts): the columns are the union of the keys, a key a
\* dict lacks is NaN in its row.
DataFrame(list) ==
    LET cols == UNION {list[i].tags : i \in 1..Len(list)}
    IN Table(cols,
             [i \in 1..Len(list) |->
                 [rec |-> list[i].rec, pt |-> list[i].pt,
                  tp |-> IF "itemTp" \in list[i].tags THEN list[i].tp ELSE "nan",
                  tn |-> IF "itemTn" \in list[i].tags THEN list[i].tn ELSE "nan"]])

\* get_water_quality_data(date_str, date_str): the request selects the month,
\* the rows are then filtered to the day when a wmcymd column exists (a row
\* without wmcymd is NaT there and is dropped).
get_water_quality_data(resp, d) ==
    LET data == _make_api_request(resp)
    IN IF Truthy(data)
       THEN LET df == DataFrame(data.list)
                keep == [i \in 1..Len(data.list) |->
                            "wmcymd" \in data.list[i].tags /\ data.list[i].date = d]
            IN IF "wmcymd" \in df.cols
               THEN Table(df.cols, SelectSeq2(df.rows, keep))
               ELSE df
       ELSE NoneT

\* pd.concat([a, b], ignore_index=True); a = NoneT stands for the empty list.
Concat(a, b) ==
    IF a.isNone THEN b ELSE Table(a.cols \cup b.cols, a.rows \o b.rows)

\* One iteration of the day loop of get_all_water_quality_data.
AppendDay(acc, data) ==
    IF ~data.isNone /\ ~IsEmpty(data) THEN Concat(acc, data) ELSE acc

(***************************************************************************)
(* Tier-1 validation gate (data_collector.py)                              *)
(***************************************************************************)
\* isinstance(x, (int, float)) or pd.isna(x)
IsNumberOrNa(cell) == cell \in {"num", "nan"}

\* _validate_api_data: the four required columns, then the type test on every
\* cell of itemTp and itemTn; negative values are only logged.
_validate_api_data(data) ==
    /\ IdCols \cup PollutantCols \subseteq data.cols
    /\ \A i \in 1..Len(data.rows) : IsNumberOrNa(data.rows[i].tp)
    /\ \A i \in 1..Len(data.rows) : IsNumberOrNa(data.rows[i].tn)

\* The tail of _try_api_collection, after the probe succeeded and
\* get_all_water_quality_data returned data (NoneT when all_data is empty).
_try_api_collection(data) ==
    IF ~data.isNone /\ ~IsEmpty(data)
    THEN (IF _validate_api_data(data) THEN data ELSE NoneT)
    ELSE NoneT

(***************************************************************************)
(* Files (shutil, DataFrame.to_csv, pd.read_csv)                           *)
(***************************************************************************)
\* A file: absent, a CSV of text cells ("numtext", "text", "blank"), or bytes
\* pd.read_csv cannot parse (zero bytes, a cut-off write).
Absent == [kind |-> "absent", cols |-> {}, rows |-> <<>>]
Corrupt == [kind |-> "corrupt", cols |-> {}, rows |-> <<>>]
Csv(cols, rows) == [kind |-> "csv", cols |-> cols, rows |-> rows]
\* os.path.exists
Exists(f) == f.kind # "absent"

\* to_csv writes NaN and '' as an empty field, numbers and text as they print.
CellToText(c) ==
    CASE c \in {"num", "numstr"} -> "numtext"
      [] c \in {"nan", "empty"} -> "blank"
      [] OTHER -> "text"

to_csv(t) ==
    Csv(t.cols,
        [i \in 1..Len(t.rows) |->
            [rec |-> t.rows[i].rec, pt |-> t.rows[i].pt,
             tp |-> CellToText(t.rows[i].tp), tn |-> CellToText(t.rows[i].tn)]])

\* read_csv infers one dtype per column: a column of numbers and blanks is
\* float (blank: NaN), a column with any other text keeps every field as str.
ColumnIsNumeric(texts) == \A i \in 1..Len(texts) : texts[i] \in {"numtext", "blank"}

TextToCell(x, numeric) ==
    CASE x = "blank" -> "nan"
      [] x = "numtext" -> (IF numeric THEN "num" ELSE "numstr")
      [] OTHER -> "txt"

\* pd.read_csv: [exc, val]; exc when the bytes do not parse.
read_csv(f) ==
    IF f.kind # "csv"
    THEN [exc |-> TRUE, val |-> NoneT]
    ELSE LET tpNum == ColumnIsNumeric([i \in 1..Len(f.rows) |-> f.rows[i].tp])
             tnNum == ColumnIsNumeric([i \in 1..Len(f.rows) |-> f.rows[i].tn])
         IN [exc |-> FALSE,
             val |-> Table(f.cols,
                           [i \in 1..Len(f.rows) |->
                               [rec |-> f.rows[i].rec, pt |-> f.rows[i].pt,
                                tp |-> TextToCell(f.rows[i].tp, tpNum),
                                tn |-> TextToCell(f.rows[i].tn, tnNum)]])]

RECURSIVE DropDuplicates(_, _)
\* drop_duplicates over the station columns: the first row of each station
DropDuplicates(rows, seen) ==
    IF rows = <<>> THEN <<>>
    ELSE IF Head(rows).pt \in seen
         THEN DropDuplicates(Tail(rows), seen)
         ELSE <<[rec |-> 0, pt |-> Head(rows).pt, tp |-> "nan", tn |-> "nan"]>>
              \o DropDuplicates(Tail(rows), seen \cup {Head(rows).pt})

\* api_data[['ptNo', 'ptNm', 'addr', 'latDgr', 'lonDgr']].drop_duplicates():
\* [exc, val]; KeyError when a column is not in the table.
StationsExtract(t) ==
    IF IdCols \cup StationCols \subseteq t.cols
    THEN [exc |-> FALSE, val |-> Table(IdCols \cup StationCols, DropDuplicates(t.rows, {}))]
    ELSE [exc |-> TRUE, val |-> NoneT]

\* strftime('%Y%m%d_%H%M%S') of datetime.now()
Timestamp(clk) == clk \div 10

BackupName(stem, ts) == <<stem, ts>>

\* shutil.copy2(src, dst): dst is created or replaced.
Copy2(dir, name, content) ==
    {e \in dir : e.name # name} \cup {[name |-> name, content |-> content]}

\* The backup copies that _backup_existing_files completes.  fail names the
\* copy that raises ("none", "wq", "st"); the except clause ends the method
\* there, logs, and returns normally.
BackupDone(wq, st, fail) ==
    [wq |-> Exists(wq) /\ fail # "wq",
     st |-> Exists(st) /\ fail # "st" /\ ~(Exists(wq) /\ fail = "wq")]

_backup_existing_files(dir, wq, st, clk, fail) ==
    LET done == BackupDone(wq, st, fail)
        d1 == IF done.wq
              THEN Copy2(dir, BackupName("water_quality_data", Timestamp(clk)), wq)
              ELSE dir
    IN IF done.st
       THEN Copy2(d1, BackupName("measurement_stations", Timestamp(clk)), st)
       ELSE d1

\* DataFrame.to_csv(path): how the write ends ("ok"; "fail": the open raises,
\* the file is as before; "partial": the write raises after the file was cut).
WriteOutcomes == {"ok", "fail", "partial"}
WriteFile(old, t, outcome) ==
    CASE outcome = "ok" -> to_csv(t)
      [] outcome = "partial" -> Corrupt
      [] OTHER -> old

(***************************************************************************)
(* Tiers 2 and 3 (data_collector.py)                                       *)
(***************************************************************************)
\* The table the Local_Water_CSV sources merge to when they hold usable rows.
LegacyTable ==
    Table(IdCols \cup PollutantCols \cup {"latDgr", "lonDgr"},
          <<[rec |-> 9, pt |-> 9, tp |-> "num", tn |-> "num"]>>)

LocalCsvStates == {"absent", "unreadable", "norows", "rows"}

\* _load_local_csv_files: None without a file or after an exception, an empty
\* table when no row has usable coordinates.
_load_local_csv_files(local) ==
    CASE local = "rows" -> LegacyTable
      [] local = "norows" -> Table(LegacyTable.cols, <<>>)
      [] OTHER -> NoneT

\* Mutant of LoadExcept: the exception is raised again.
LoadExceptReraise == [exc |-> TRUE, val |-> NoneT]

\* What the except clause of _load_existing_csv makes of an exception.
LoadExcept == [exc |-> FALSE, val |-> NoneT]

\* Mutant of _load_existing_csv: a cache file that cannot be read, or has no
\* row, falls through to the legacy sources.
_load_existing_csv_fallthrough(wq, local) ==
    LET r == IF Exists(wq) THEN read_csv(wq) ELSE [exc |-> TRUE, val |-> NoneT]
        local_data == _load_local_csv_files(local)
    IN IF ~r.exc /\ ~IsEmpty(r.val)
       THEN [exc |-> FALSE, val |-> r.val, read |-> TRUE, legacy |-> FALSE]
       ELSE [exc |-> FALSE,
             val |-> IF ~local_data.isNone /\ ~IsEmpty(local_data) THEN local_data ELSE NoneT,
             read |-> Exists(wq), legacy |-> TRUE]

\* Mutant of _load_existing_csv: the legacy sources are preferred to the cache.
_load_existing_csv_legacy_first(wq, local) ==
    LET local_data == _load_local_csv_files(local)
        r == read_csv(wq)
    IN IF ~local_data.isNone /\ ~IsEmpty(local_data)
       THEN [exc |-> FALSE, val |-> local_data, read |-> FALSE, legacy |-> TRUE]
       ELSE [exc |-> FALSE, val |-> IF r.exc THEN NoneT ELSE r.val,
             read |-> Exists(wq), legacy |-> TRUE]

\* _load_existing_csv: [exc, val, read, legacy]; read and legacy tell which
\* source was opened.
_load_existing_csv(wq, local) ==
    IF Exists(wq)
    THEN LET r == read_csv(wq)
         IN IF r.exc
            THEN [exc |-> LoadExcept.exc, val |-> LoadExcept.val,
                  read |-> TRUE, legacy |-> FALSE]
            ELSE [exc |-> FALSE, val |-> r.val, read |-> TRUE, legacy |-> FALSE]
    ELSE LET local_data == _load_local_csv_files(local)
         IN [exc |-> FALSE,
             val |-> IF ~local_data.isNone /\ ~IsEmpty(local_data) THEN local_data ELSE NoneT,
             read |-> FALSE, legacy |-> TRUE]

\* Mutant of collect_data_return: api_data is returned only after a successful
\* cache refresh.
collect_data_return_success_only(api, ok, csv_data) ==
    IF ~api.isNone /\ ~IsEmpty(api) /\ ok
    THEN api
    ELSE IF ~csv_data.isNone /\ ~IsEmpty(csv_data) THEN csv_data ELSE NoneT

\* The value collect_data returns: api_data when the remote tier gave a
\* table (whether or not the cache refresh succeeded), else the loaded CSV
\* when it has rows, else None.
collect_data_return(api, ok, csv_data) ==
    IF ~api.isNone /\ ~IsEmpty(api)
    THEN api
    ELSE IF ~csv_data.isNone /\ ~IsEmpty(csv_data) THEN csv_data ELSE NoneT

(***************************************************************************)
(* collect_data(), step by step                                            *)
(***************************************************************************)
\* The history of a call, as it is when the call starts.
HistStart(wq, st, dir) ==
    [tiers |-> <<>>,                             \* tiers opened, in order
     probe_ok |-> FALSE,                         \* test_api_connection returned True
     old_wq |-> wq, old_st |-> st, old_dir |-> dir,   \* the disk when the call started
     bk |-> [wq |-> FALSE, st |-> FALSE],        \* backup copies completed in this call
     wrote |-> [wq |-> FALSE, st |-> FALSE],     \* canonical files written in this call
     loaded |-> NoneT,                           \* what _load_existing_csv returned
     raised |-> FALSE]                           \* an exception left collect_data

\* Canonical cache files a first call may find.
OldCache ==
    Csv(IdCols \cup StationCols \cup PollutantCols,
        <<[rec |-> 7, pt |-> 7, tp |-> "numtext", tn |-> "blank"],
          [rec |-> 8, pt |-> 8, tp |-> "text", tn |-> "numtext"]>>)
HeaderOnly == Csv(IdCols \cup StationCols \cup PollutantCols, <<>>)
OldStations ==
    Csv(IdCols \cup StationCols, <<[rec |-> 0, pt |-> 8, tp |-> "blank", tn |-> "blank"]>>)

InitialCaches == {Absent, OldCache, HeaderOnly, Corrupt}
InitialStations == {Absent, OldStations}

\* The station list the probe's listPoint request may return.
ProbeLists == {<<>>, <<XmlItem(0, IdCols, "none", "none", -1)>>}

InitCollector ==
    /\ pc = "idle"
    /\ runs = 0
    /\ clock = 0
    /\ remote = <<>>
    /\ day = 0
    /\ all_data = NoneT
    /\ day_failed = FALSE
    /\ api_data = NoneT
    /\ success = "none"
    /\ result = NoneT
    /\ wq_file \in InitialCaches
    /\ st_file \in InitialStations
    /\ backup_dir = {}
    /\ local_csv = "absent"
    /\ hist = HistStart(wq_file, st_file, {})

\* No scorer run.
ScOff == [phase |-> "off"]

\* collect_data is called.
CollectStart ==
    /\ pc \in {"idle", "done"}
    /\ runs < MaxRuns
    /\ pc' = "probe"
    /\ runs' = runs + 1
    /\ remote' \in RemoteDBs
    /\ day' = 0
    /\ all_data' = NoneT
    /\ day_failed' = FALSE
    /\ api_data' = NoneT
    /\ success' = "none"
    /\ result' = NoneT
    /\ local_csv' = "absent"
    /\ hist' = HistStart(wq_file, st_file, backup_dir)
    /\ UNCHANGED <<clock, wq_file, st_file, backup_dir>>
    /\ UNCHANGED notCollector

\* _try_api_collection: test_api_connection.
Probe ==
    /\ pc = "probe"
    /\ \E kind \in ResponseKinds, items \in ProbeLists :
          LET ok == test_api_connection(Response(kind, items))
          IN /\ hist' = [hist EXCEPT !.tiers = Append(@, "remote"), !.probe_ok = ok]
             /\ pc' = IF ok THEN "fetch" ELSE "load"
    /\ UNCHANGED <<runs, clock, remote, day, all_data, day_failed, api_data, success,
                   result, wq_file, st_file, backup_dir, local_csv>>
    /\ UNCHANGED notCollector

\* get_all_water_quality_data: one iteration of `while current_date <= end_date`.
FetchDay ==
    /\ pc = "fetch"
    /\ day <= DaysBack
    /\ \E kind \in ResponseKinds :
          LET resp == Response(kind, remote)
              data == get_water_quality_data(resp, day)
          IN /\ all_data' = AppendDay(all_data, data)
             /\ day_failed' = (day_failed \/ kind # "items")
    /\ clock' = clock + 1                 \* time.sleep(0.1)
    /\ day' = day + 1
    /\ UNCHANGED <<pc, runs, remote, api_data, success, result, wq_file, st_file,
                   backup_dir, local_csv, hist>>
    /\ UNCHANGED notCollector

\* The loop ends: the combined table is validated and collect_data branches.
FetchEnd ==
    /\ pc = "fetch"
    /\ day > DaysBack
    /\ api_data' = _try_api_collection(all_data)
    /\ pc' = IF ~api_data'.isNone /\ ~IsEmpty(api_data') THEN "backup" ELSE "load"
    /\ UNCHANGED <<runs, clock, remote, day, all_data, day_failed, success, result,
                   wq_file, st_file, backup_dir, local_csv, hist>>
    /\ UNCHANGED notCollector

\* _update_csv_files: _backup_existing_files.
Backup ==
    /\ pc = "backup"
    /\ \E fail \in {"none", "wq", "st"} :
          /\ backup_dir' = _backup_existing_files(backup_dir, wq_file, st_file, clock, fail)
          /\ hist' = [hist EXCEPT !.bk = BackupDone(wq_file, st_file, fail)]
    /\ pc' = "write_wq"
    /\ UNCHANGED <<runs, clock, remote, day, all_data, day_failed, api_data, success,
                   result, wq_file, st_file, local_csv>>
    /\ UNCHANGED notCollector

\* _update_csv_files: api_data.to_csv(water_quality_path).
WriteWaterQuality ==
    /\ pc = "write_wq"
    /\ \E o \in WriteOutcomes :
          /\ wq_file' = WriteFile(wq_file, api_data, o)
          /\ hist' = [hist EXCEPT !.wrote.wq = (o # "fail")]
          /\ IF o = "ok"
             THEN /\ pc' = "write_st"
                  /\ UNCHANGED <<success, result>>
             ELSE /\ pc' = "done"
                  /\ success' = "false"
                  /\ result' = collect_data_return(api_data, FALSE, NoneT)
    /\ UNCHANGED <<runs, clock, remote, day, all_data, day_failed, api_data, st_file,
                   backup_dir, local_csv>>
    /\ UNCHANGED notCollector

\* _update_csv_files: the station extract and stations_data.to_csv(stations_path).
WriteStations ==
    /\ pc = "write_st"
    /\ LET ext == StationsExtract(api_data)
       IN \E o \in IF ext.exc THEN {"fail"} ELSE WriteOutcomes :
             /\ st_file' = IF ext.exc THEN st_file ELSE WriteFile(st_file, ext.val, o)
             /\ hist' = [hist EXCEPT !.wrote.st = (o # "fail")]
             /\ success' = IF o = "ok" THEN "true" ELSE "false"
             /\ result' = collect_data_return(api_data, o = "ok", NoneT)
    /\ pc' = "done"
    /\ UNCHANGED <<runs, clock, remote, day, all_data, day_failed, api_data, wq_file,
                   backup_dir, local_csv>>
    /\ UNCHANGED notCollector

\* collect_data's else branch: _load_existing_csv and the return.  The legacy
\* directory is in whatever state its owner left it.
LoadExisting ==
    /\ pc = "load"
    /\ \E local \in LocalCsvStates :
          LET r == _load_existing_csv(wq_file, local)
          IN /\ local_csv' = local
             /\ hist' = [hist EXCEPT
                            !.tiers = @ \o (IF r.read THEN <<"cache">> ELSE <<>>)
                                        \o (IF r.legacy THEN <<"legacy">> ELSE <<>>),
                            !.loaded = r.val,
                            !.raised = r.exc]
             /\ pc' = IF r.exc THEN "raised" ELSE "done"
             /\ result' = IF r.exc THEN NoneT ELSE collect_data_return(api_data, FALSE, r.val)
    /\ UNCHANGED <<runs, clock, remote, day, all_data, day_failed, api_data, success,
                   wq_file, st_file, backup_dir>>
    /\ UNCHANGED notCollector

(***************************************************************************)
(* Risk scorers (helpers.py, risk_calculator.py, alert_system.py,          *)
(* visualization/map_generator.py, preprocessor.py)                        *)
(***************************************************************************)
\* A Python value: None, float('nan') or a number.
NoneV == [k |-> "none", v |-> 0]
NaN == [k |-> "nan", v |-> 0]
Num(n) == [k |-> "num", v |-> n]
\* pd.isna
IsNa(x) == x.k \in {"none", "nan"}

\* config.system_config TP_WEIGHT = 0.99 and TN_WEIGHT = 0.01, in hundredths
TpWeight == 99
TnWeight == 1

\* helpers.calculate_weighted_score; the index is in hundredths.
calculate_weighted_score(tp_value, tn_value) ==
    IF IsNa(tp_value) \/ IsNa(tn_value)
    THEN NaN
    ELSE Num(tp_value.v * TpWeight + tn_value.v * TnWeight)

\* the breakpoints 0.5, 1.0 and 2.0, in hundredths
LowMax == 50
MediumMax == 100
HighMax == 200

\* Mutant of categorize_risk_level: the upper bounds are exclusive.
categorize_risk_level_strict(score) ==
    IF IsNa(score) THEN "unknown"
    ELSE IF score.v < LowMax THEN "low"
    ELSE IF score.v < MediumMax THEN "medium"
    ELSE IF score.v < HighMax THEN "high"
    ELSE "very_high"

\* helpers.categorize_risk_level
categorize_risk_level(score) ==
    IF IsNa(score) THEN "unknown"
    ELSE IF score.v <= LowMax THEN "low"
    ELSE IF score.v <= MediumMax THEN "medium"
    ELSE IF score.v <= HighMax THEN "high"
    ELSE "very_high"

\* MapGenerator.risk_thresholds, in insertion order; inf marks float('inf').
risk_thresholds ==
    <<[level |-> "low", t |-> LowMax, inf |-> FALSE],
      [level |-> "medium", t |-> MediumMax, inf |-> FALSE],
      [level |-> "high", t |-> HighMax, inf |-> FALSE],
      [level |-> "very_high", t |-> 0, inf |-> TRUE]>>

RECURSIVE FirstThreshold(_, _)
\* the loop of _classify_risk_level: the first level whose threshold is not below the score
FirstThreshold(score, ths) ==
    IF ths = <<>> THEN "very_high"
    ELSE IF Head(ths).inf \/ score.v <= Head(ths).t THEN Head(ths).level
    ELSE FirstThreshold(score, Tail(ths))

\* MapGenerator._classify_risk_level
_classify_risk_level(score) ==
    IF IsNa(score) THEN "unknown" ELSE FirstThreshold(score, risk_thresholds)

\* WaterQualityAlertCalculator weights 0.99067 and 0.00933, in units of 1e-5
AlertTpWeight == 99067
AlertTnWeight == 933

\* WaterQualityAlertCalculator.calculate_weighted_index; units of 1e-5.  Only
\* None is tested: NaN goes through the arithmetic and comes out NaN.
calculate_weighted_index(tp_value, tn_value) ==
    IF tp_value.k = "none" \/ tn_value.k = "none" THEN NoneV
    ELSE IF tp_value.k = "nan" \/ tn_value.k = "nan" THEN NaN
    ELSE Num(tp_value.v * AlertTpWeight + tn_value.v * AlertTnWeight)

\* tp_ratio * tp_weight + tn_ratio * tn_weight with the standards 0.1 and 2.0
\* mg/L, in units of 1e-6: 9.9067 per mg/L of TP, 0.004665 per mg/L of TN.
RatioPerTp == 9906700
RatioPerTn == 4665
weighted_ratio(tp_value, tn_value) ==
    IF tp_value.k = "nan" \/ tn_value.k = "nan" THEN NaN
    ELSE Num(tp_value.v * RatioPerTp + tn_value.v * RatioPerTn)

\* alert_levels ('1단계' .. '5단계' are "level1" .. "level5"), thresholds in 1e-6
alert_levels ==
    <<[level |-> "level1", t |-> 200000], [level |-> "level2", t |-> 400000],
      [level |-> "level3", t |-> 600000], [level |-> "level4", t |-> 800000],
      [level |-> "level5", t |-> 1000000]>>

\* Mutant of LastReached: only the first breakpoint is looked at.
FirstReached(ratio, levels, current) ==
    IF levels # <<>> /\ ratio.k = "num" /\ ratio.v >= Head(levels).t
    THEN Head(levels).level ELSE current

RECURSIVE LastReached(_, _, _)
\* `for level, threshold in alert_levels.items(): if ratio >= threshold: alert_level = level`
\* (a comparison with NaN is False)
LastReached(ratio, levels, current) ==
    IF levels = <<>> THEN current
    ELSE LastReached(ratio, Tail(levels),
                     IF ratio.k = "num" /\ ratio.v >= Head(levels).t
                     THEN Head(levels).level ELSE current)

\* WaterQualityAlertCalculator.calculate_alert_level: [alert_level, weighted_index];
\* '데이터 없음' is "no_data", '정상' is "normal".
calculate_alert_level(tp_value, tn_value) ==
    LET weighted_index == calculate_weighted_index(tp_value, tn_value)
    IN IF weighted_index.k = "none"
       THEN [alert_level |-> "no_data", weighted_index |-> NoneV]
       ELSE [alert_level |-> LastReached(weighted_ratio(tp_value, tn_value),
                                         alert_levels, "normal"),
             weighted_index |-> weighted_index]

\* The columns of a collected table, and DataPreprocessor._clean_columns:
\* lower-case, keep the known ones, rename.
RawColumns == {"ptNo", "ptNm", "addr", "latDgr", "lonDgr", "itemTp", "itemTn"}
Lower(c) ==
    CASE c = "ptNo" -> "ptno" [] c = "ptNm" -> "ptnm" [] c = "itemTp" -> "itemtp"
      [] c = "itemTn" -> "itemtn" [] c = "latDgr" -> "latdgr" [] c = "lonDgr" -> "londgr"
      [] OTHER -> c
Rename(c) ==
    CASE c = "ptno" -> "station_code" [] c = "ptnm" -> "station_name"
      [] c = "addr" -> "address" [] c = "itemtp" -> "tp" [] c = "itemtn" -> "tn"
      [] c = "wmyr" -> "year" [] c = "wmod" -> "month" [] c = "wmcymd" -> "measurement_date"
      [] OTHER -> c
_clean_columns(cols) ==
    {Rename(c) : c \in {Lower(x) : x \in cols} \cap
        {"ptno", "ptnm", "addr", "itemtp", "itemtn", "wmyr", "wmod", "wmcymd"}}

\* _handle_missing_values: fillna(0) on tp and tn
FillNa(x) == IF IsNa(x) THEN Num(0) ELSE x
\* the outlier threshold of _remove_outliers and validate_water_quality_data
OutlierMax == 1000
\* _remove_outliers keeps the row
InRange(x) == x.k = "num" /\ x.v >= 0 /\ x.v <= OutlierMax

\* helpers.validate_water_quality_data on a table of the given columns with one
\* row (or none, when kept is FALSE)
validate_water_quality_data(cols, kept, tp, tn) ==
    /\ kept
    /\ {"ptNo", "ptNm", "itemTp", "itemTn"} \subseteq cols
    /\ InRange(tp) /\ InRange(tn)

\* DataPreprocessor.preprocess_water_quality_data on a one-row table:
\* [isNone, cols, tp, tn]
preprocess_water_quality_data(cols, tp_raw, tn_raw) ==
    LET c == _clean_columns(cols)
        tp == FillNa(tp_raw)
        tn == FillNa(tn_raw)
        kept == c # {} /\ InRange(tp) /\ InRange(tn)
    IN IF validate_water_quality_data(c, kept, tp, tn)
       THEN [isNone |-> FALSE, cols |-> c, tp |-> tp, tn |-> tn]
       ELSE [isNone |-> TRUE, cols |-> {}, tp |-> NaN, tn |-> NaN]

\* RiskCalculator.calculate_risk_scores on one row: row.get('tp', 0) and
\* row.get('tn', 0), the weighted score and its level.
calculate_risk_scores(cols, tp, tn) ==
    LET score == calculate_weighted_score(IF "tp" \in cols THEN tp ELSE Num(0),
                                          IF "tn" \in cols THEN tn ELSE Num(0))
    IN [weighted_score |-> score, risk_level |-> categorize_risk_level(score)]

\* largest index handed to the classifiers directly, in hundredths
MaxIndex == 201

Values(lo, hi) == {NoneV, NaN} \cup {Num(n) : n \in lo..hi}

\* A scorer run: the reading (tp, tn), an index given directly (idx), the path
\* taken and what it produced (scored: a scored reading exists).
ScRun(phase, tp, tn, idx, index, level) ==
    [phase |-> phase, tp |-> tp, tn |-> tn, idx |-> idx, index |-> index, level |-> level]

InitScorer ==
    \E tp \in Values(-1, MaxTp), tn \in Values(-1, MaxTn) :
        sc = ScRun("input", tp, tn, NaN, NaN, "-")

\* An index is handed to the classifiers.
InitIndex ==
    \E idx \in Values(-1, MaxIndex) : sc = ScRun("index", NaN, NaN, idx, NaN, "-")

\* helpers.calculate_weighted_score, then categorize_risk_level
ScoreHelpers ==
    /\ sc.phase = "input"
    /\ LET score == calculate_weighted_score(sc.tp, sc.tn)
       IN sc' = [sc EXCEPT !.phase = "helpers", !.index = score,
                           !.level = categorize_risk_level(score)]
    /\ UNCHANGED notScorer

\* The pipeline: preprocess_water_quality_data, then calculate_risk_scores on
\* what it returns; nothing is scored when it returns None.  A DataFrame holds
\* None as NaN.
ScorePipeline ==
    /\ sc.phase = "input"
    /\ LET tp == IF sc.tp.k = "none" THEN NaN ELSE sc.tp
           tn == IF sc.tn.k = "none" THEN NaN ELSE sc.tn
           p == preprocess_water_quality_data(RawColumns, tp, tn)
           r == calculate_risk_scores(p.cols, p.tp, p.tn)
       IN sc' = IF p.isNone
                THEN [sc EXCEPT !.phase = "pipeline_none"]
                ELSE [sc EXCEPT !.phase = "pipeline", !.index = r.weighted_score,
                                !.level = r.risk_level]
    /\ UNCHANGED notScorer

\* WaterQualityAlertCalculator.calculate_alert_level
ScoreAlert ==
    /\ sc.phase = "input"
    /\ LET a == calculate_alert_level(sc.tp, sc.tn)
       IN sc' = [sc EXCEPT !.phase = "alert", !.index = a.weighted_index,
                           !.level = a.alert_level]
    /\ UNCHANGED notScorer

\* helpers.categorize_risk_level on a given index
ClassifyHelpers ==
    /\ sc.phase = "index"
    /\ sc' = [sc EXCEPT !.phase = "categorize", !.level = categorize_risk_level(sc.idx)]
    /\ UNCHANGED notScorer

\* MapGenerator._classify_risk_level on a given index
ClassifyMap ==
    /\ sc.phase = "index"
    /\ sc' = [sc EXCEPT !.phase = "classify", !.level = _classify_risk_level(sc.idx)]
    /\ UNCHANGED notScorer

(***************************************************************************)
(* The integrated map script (integrated_water_quality_map.py)             *)
(***************************************************************************)
\* Indices handed to the percentile classifier, in tenths: 0.1, 0.5, 1.0, 2.0, 5.0
PctValues == {Num(1), Num(5), Num(10), Num(20), Num(50)} \cup {NaN}

\* x < y on floats: False when either side is NaN
Less(x, y) == x.k = "num" /\ y.k = "num" /\ x.v < y.v

\* Mutant of Below: members less than or equal to the score are counted.
BelowOrEqual(score, all_scores, n) ==
    Cardinality({i \in 1..n : all_scores[i].k = "num" /\ score.k = "num"
                                /\ all_scores[i].v <= score.v})

\* (all_scores < score).sum() over the first n members
RECURSIVE Below(_, _, _)
Below(score, all_scores, n) ==
    IF n = 0 THEN 0
    ELSE Below(score, all_scores, n - 1) + (IF Less(all_scores[n], score) THEN 1 ELSE 0)

\* Mutant of calculate_alert_level_by_percentile: the upper bound of each band
\* is exclusive.
calculate_alert_level_by_percentile_exclusive(score, all_scores) ==
    IF Len(all_scores) = 0 THEN "level1"
    ELSE LET below == Below(score, all_scores, Len(all_scores))
             n == Len(all_scores)
         IN IF below * 100 < 20 * n THEN "level1"
            ELSE IF below * 100 < 40 * n THEN "level2"
            ELSE IF below * 100 < 60 * n THEN "level3"
            ELSE IF below * 100 < 80 * n THEN "level4"
            ELSE "level5"

\* calculate_alert_level_by_percentile; percentile <= b is below / n * 100 <= b
calculate_alert_level_by_percentile(score, all_scores) ==
    IF Len(all_scores) = 0 THEN "level1"
    ELSE LET below == Below(score, all_scores, Len(all_scores))
             n == Len(all_scores)
         IN IF below * 100 <= 20 * n THEN "level1"
            ELSE IF below * 100 <= 40 * n THEN "level2"
            ELSE IF below * 100 <= 60 * n THEN "level3"
            ELSE IF below * 100 <= 80 * n THEN "level4"
            ELSE "level5"

\* The index of every region of one run, in tenths.
RegionIndices == {NaN, Num(1), Num(5), Num(10), Num(20)}

\* Mutant of region_alert_levels: a region is ranked against the other regions.
region_alert_levels_others(all_scores) ==
    [i \in 1..Len(all_scores) |->
        calculate_alert_level_by_percentile(all_scores[i],
            SubSeq(all_scores, 1, i - 1) \o SubSeq(all_scores, i + 1, Len(all_scores)))]

\* The '경보_단계' column of a run: every region index against all_scores, the
\* indices of all regions of the same run.
region_alert_levels(all_scores) ==
    [i \in 1..Len(all_scores) |->
        calculate_alert_level_by_percentile(all_scores[i], all_scores)]

PctOff == [phase |-> "off", score |-> NaN, all_scores |-> <<>>, level |-> "-",
           levels |-> <<>>]

InitPct ==
    \E score \in PctValues :
      \E n \in 0..MaxPop :
        \E all_scores \in [1..n -> PctValues] :
            pct = [phase |-> "input", score |-> score, all_scores |-> all_scores,
                   level |-> "-", levels |-> <<>>]

\* One call of calculate_alert_level_by_percentile(score, all_scores).
ClassifyPercentile ==
    /\ pct.phase = "input"
    /\ pct' = [pct EXCEPT !.phase = "done",
                          !.level = calculate_alert_level_by_percentile(pct.score, pct.all_scores)]
    /\ UNCHANGED notPct

\* The region table of a run, before its '경보_단계' column is computed.
InitRegionTable ==
    \E n \in 0..MaxRegions :
      \E all_scores \in [1..n -> RegionIndices] :
          pct = [PctOff EXCEPT !.phase = "regions", !.all_scores = all_scores]

\* region_stats['경보_단계'] = region_stats['가중치_점수'].apply(...)
ClassifyRegions ==
    /\ pct.phase = "regions"
    /\ pct' = [pct EXCEPT !.phase = "classified",
                          !.levels = region_alert_levels(pct.all_scores)]
    /\ UNCHANGED notPct

(***************************************************************************)
(* Coordinate normalizers: WaterQualityCollector._parse_coordinate and     *)
(* parse_coordinate of the map script (the same code).  A string is a      *)
(* sequence of tokens: a maximal run of digits [t = "num", v = its value,  *)
(* w = its length], or one of the characters deg, min ('), dot, quote ("), *)
(* minus, other.  A decimal result is counted in 1/360000 of a degree      *)
(* (hundredths of an arc second).                                          *)
(***************************************************************************)
N(v, w) == [t |-> "num", v |-> v, w |-> w]
Ch(t) == [t |-> t, v |-> 0, w |-> 0]
Nums == {N(2, 1), N(20, 2), N(35, 2), N(128, 3)}

\* s[i] exists and is the character t / a digit run
IsCh(s, i, t) == i <= Len(s) /\ s[i].t = t
IsNum(s, i) == IsCh(s, i, "num")

\* float() of the digit run x, of '.y', of 'x.y', in hundredths
Whole(x) == x.v * 100
Frac(y) == IF y.w = 1 THEN y.v * 10 ELSE y.v

\* coord_str.replace('.', '').replace('-', '').isdigit()
LooksDecimal(s) ==
    /\ \A i \in 1..Len(s) : s[i].t \in {"num", "dot", "minus"}
    /\ \E i \in 1..Len(s) : s[i].t = "num"

\* float(coord_str) of such a string: [exc, val], val in 1/360000 degree
FloatOf(s) ==
    LET neg == IsCh(s, 1, "minus")
        b == IF neg THEN SubSeq(s, 2, Len(s)) ELSE s
        sign == IF neg THEN -1 ELSE 1
        ok(v) == [exc |-> FALSE, val |-> Num(sign * v * 3600)]
    IN IF Len(b) = 1 /\ IsNum(b, 1) THEN ok(Whole(b[1]))
       ELSE IF Len(b) = 2 /\ IsNum(b, 1) /\ IsCh(b, 2, "dot") THEN ok(Whole(b[1]))
       ELSE IF Len(b) = 2 /\ IsCh(b, 1, "dot") /\ IsNum(b, 2) THEN ok(Frac(b[2]))
       ELSE IF Len(b) = 3 /\ IsNum(b, 1) /\ IsCh(b, 2, "dot") /\ IsNum(b, 3)
            THEN ok(Whole(b[1]) + Frac(b[3]))
       ELSE [exc |-> TRUE, val |-> NoneV]

\* re.match of (\d+)°(\d+)' at the start of the string
DegMin(s) == IsNum(s, 1) /\ IsCh(s, 2, "deg") /\ IsNum(s, 3) /\ IsCh(s, 4, "min")

\* The greedy match of (\d+\.?\d*) at s[i], then a quote:
\* [m, sec] with sec = float(group) in hundredths
NumDotNumQuote(s, i) ==
    IF ~IsNum(s, i) THEN [m |-> FALSE, sec |-> 0]
    ELSE IF IsCh(s, i + 1, "quote") THEN [m |-> TRUE, sec |-> Whole(s[i])]
    ELSE IF IsCh(s, i + 1, "dot") /\ IsCh(s, i + 2, "quote")
         THEN [m |-> TRUE, sec |-> Whole(s[i])]
    ELSE IF IsCh(s, i + 1, "dot") /\ IsNum(s, i + 2) /\ IsCh(s, i + 3, "quote")
         THEN [m |-> TRUE, sec |-> Whole(s[i]) + Frac(s[i + 2])]
    ELSE [m |-> FALSE, sec |-> 0]

\* The four patterns, each [m, sec]: whether re.match succeeds and
\* float(match.group(3)) in hundredths of a second.
Pattern1(s) == IF DegMin(s) THEN NumDotNumQuote(s, 5) ELSE [m |-> FALSE, sec |-> 0]
Pattern2(s) ==
    IF DegMin(s) /\ IsCh(s, 5, "dot") THEN NumDotNumQuote(s, 6) ELSE [m |-> FALSE, sec |-> 0]
Pattern3(s) ==
    IF DegMin(s) /\ IsNum(s, 5) THEN [m |-> TRUE, sec |-> Whole(s[5])]
    ELSE [m |-> FALSE, sec |-> 0]
Pattern4(s) ==
    IF DegMin(s) /\ IsCh(s, 5, "dot") /\ IsNum(s, 6) THEN [m |-> TRUE, sec |-> Whole(s[6])]
    ELSE [m |-> FALSE, sec |-> 0]
patterns(s) == <<Pattern1(s), Pattern2(s), Pattern3(s), Pattern4(s)>>

\* degrees + (minutes / 60) + (seconds / 3600)
Decimal(s, sec) == Num(s[1].v * 360000 + s[3].v * 6000 + sec)

\* for pattern in patterns: the first match returns
RECURSIVE FirstMatch(_, _, _)
FirstMatch(s, ps, i) ==
    IF i > Len(ps) THEN NoneV
    ELSE IF ps[i].m THEN Decimal(s, ps[i].sec)
    ELSE FirstMatch(s, ps, i + 1)

\* WaterQualityCollector._parse_coordinate
_parse_coordinate(s) ==
    IF LooksDecimal(s)
    THEN (IF FloatOf(s).exc THEN NoneV ELSE FloatOf(s).val)
    ELSE FirstMatch(s, patterns(s), 1)

\* parse_coordinate of the map script
parse_coordinate(s) ==
    IF LooksDecimal(s)
    THEN (IF FloatOf(s).exc THEN NoneV ELSE FloatOf(s).val)
    ELSE FirstMatch(s, patterns(s), 1)

\* Coordinate strings: degree-minute-second shaped ones, decimal ones, others.
Heads ==
    {<<d, Ch("deg"), m, Ch("min")>> : d \in Nums, m \in Nums}
    \cup {<<Ch("minus"), d, Ch("deg"), m, Ch("min")>> : d \in Nums, m \in Nums}
    \cup {<<d, Ch("other"), m, Ch("min")>> : d \in Nums, m \in Nums}
Tails ==
    {<<>>}
    \cup {<<x>> : x \in Nums}
    \cup {<<x, Ch("dot")>> : x \in Nums}
    \cup {<<x, Ch("dot"), y>> : x \in Nums, y \in Nums}
    \cup {<<Ch("dot"), y>> : y \in Nums}
    \cup {<<Ch("dot"), x, Ch("dot"), y>> : x \in Nums, y \in Nums}
Ends == {<<>>, <<Ch("quote")>>, <<Ch("quote"), Ch("other")>>}
DecimalStrings ==
    {<<x>> : x \in Nums}
    \cup {<<x, Ch("dot"), y>> : x \in Nums, y \in Nums}
    \cup {<<Ch("minus"), x, Ch("dot"), y>> : x \in Nums, y \in Nums}
    \cup {<<x, Ch("minus"), y>> : x \in Nums, y \in Nums}
    \cup {<<Ch("other")>>, <<>>}
CoordStrings ==
    {h \o t \o e : h \in Heads, t \in Tails, e \in Ends} \cup DecimalStrings

CrdOff == [phase |-> "off", str |-> <<>>, result |-> NoneV]

InitCrd == \E str \in CoordStrings : crd = [phase |-> "input", str |-> str, result |-> NoneV]

\* One call of WaterQualityCollector._parse_coordinate(coord_str).
ParseCollector ==
    /\ crd.phase = "input"
    /\ crd' = [crd EXCEPT !.phase = "collector", !.result = _parse_coordinate(crd.str)]
    /\ UNCHANGED notCrd

\* One call of parse_coordinate(coord_str) of the map script.
ParseScript ==
    /\ crd.phase = "input"
    /\ crd' = [crd EXCEPT !.phase = "script", !.result = parse_coordinate(crd.str)]
    /\ UNCHANGED notCrd

(***************************************************************************)
(* Region aggregation: create_integrated_water_quality_map (spatial join), *)
(* group_by_administrative_region (bounding rectangles) and                *)
(* RiskCalculator.calculate_regional_risk.                                 *)
(* A coordinate is in hundredths of a degree.  A mean is exact: it is      *)
(* counted in 1/MeanScale of the unit of its column, MeanScale being a     *)
(* multiple of every group size; a region score is in 1/(1000 * MeanScale).*)
(***************************************************************************)
RECURSIVE Factorial(_)
Factorial(n) == IF n <= 1 THEN 1 ELSE n * Factorial(n - 1)
MeanScale == Factorial(MaxReadings)

\* Where a station can be: its coordinates as the reading carries them and the
\* region extract_region_from_address gives its address.
Place(id, lat, lon, region) == [id |-> id, lat |-> lat, lon |-> lon, region |-> region]
Places ==
    {Place("a", Num(3755), Num(12705), "Seoul"),      \* 37.55 N 127.05 E
     Place("b", Num(3755), Num(12715), "Seoul"),      \* 37.55 N 127.15 E
     Place("sea", Num(3300), Num(12600), "Jeju"),     \* 33.00 N 126.00 E
     Place("far", Num(9500), Num(12705), "Seoul"),    \* latitude 95.00
     Place("null", NaN, NaN, "Unknown")}

\* The polygons of national_gdf: [pid, name (SGG_NM), covers (the places within)].
Polygons ==
    {[pid |-> 1, name |-> "Jung-gu", covers |-> {"a"}],
     [pid |-> 2, name |-> "Jung-gu", covers |-> {"b"}],
     [pid |-> 3, name |-> "Nam-gu", covers |-> {"TEST001"}]}

\* Group keys in the order groupby sorts them.
NameOrder == <<"Chungbuk_other", "Gangdong-gu", "Gangnam-gu", "Gyeongbuk_other",
               "Gyeonggi_other", "Jeju", "Jung-gu", "Nam-gu", "Seoul", "Unknown", "other">>

\* A reading: its place, total phosphorus and total nitrogen (tenths of a
\* mg/L), and the '시군구' column ("-": the frame has no such column).
Reading(pl, tp, tn) == [pl |-> pl, tp |-> tp, tn |-> tn, sgg |-> "-"]
Readings == {Reading(pl, tp, tn) : pl \in Places, tp \in {NaN, Num(10), Num(30)},
                                   tn \in {NaN, Num(1000)}}
NoFrame == [isNone |-> TRUE, rows |-> <<>>]
Frame(rows) == [isNone |-> FALSE, rows |-> rows]

\* The row of the except clause of load_real_water_quality_data: station
\* TEST001 at 35.0 N 127.0 E with TP 0.1 and TN 1.0 mg/L.
DummyReading == Reading(Place("TEST001", Num(3500), Num(12700), "Unknown"), Num(1), Num(10))

\* What can go wrong in load_real_water_quality_data: the collector's
\* constructor or collect_data raises, or the table collect_data returned
\* lacks ptNo/ptNm, itemTp/itemTn, or latDgr/lonDgr.
Faults == {"none", "collector_error", "no_id_column", "no_pollutant_column",
           "no_coordinate_column"}

\* load_real_water_quality_data on what collect_data returned.  A missing
\* pollutant column is a KeyError and a missing coordinate column gives lists
\* of unequal length (ValueError): both end in the except clause.
load_real_water_quality_data(collected, fault) ==
    IF fault = "collector_error" THEN Frame(<<DummyReading>>)
    ELSE IF ~collected.isNone /\ collected.rows # <<>>
         THEN (IF fault = "no_id_column" THEN NoFrame
               ELSE IF fault \in {"no_pollutant_column", "no_coordinate_column"}
                    THEN Frame(<<DummyReading>>)
               ELSE collected)
    ELSE NoFrame

\* ranges[0] <= x <= ranges[1]
Between(lo, x, hi) == x.k = "num" /\ lo <= x.v /\ x.v <= hi

\* One entry of the dict literal: 'region': {'lat': (lo, hi), 'lon': (lo, hi)}
R(region, lat_lo, lat_hi, lon_lo, lon_hi) ==
    [region |-> region, lat |-> <<lat_lo, lat_hi>>, lon |-> <<lon_lo, lon_hi>>]

\* The dict literal of region_ranges as it is written, entry by entry.
region_ranges_written ==
    <<R("Gangnam-gu",        3750, 3760, 12700, 12710),
      R("Gangdong-gu",       3750, 3760, 12710, 12720),
      R("Gangbuk-gu",        3760, 3770, 12700, 12710),
      R("Gangseo-gu",        3750, 3760, 12680, 12690),
      R("Gwanak-gu",         3740, 3750, 12690, 12700),
      R("Gwangjin-gu",       3750, 3760, 12710, 12720),
      R("Guro-gu",           3740, 3750, 12680, 12690),
      R("Geumcheon-gu",      3740, 3750, 12690, 12700),
      R("Nowon-gu",          3760, 3770, 12700, 12710),
      R("Dobong-gu",         3760, 3770, 12700, 12710),
      R("Dongdaemun-gu",     3750, 3760, 12700, 12710),
      R("Dongjak-gu",        3740, 3750, 12690, 12700),
      R("Mapo-gu",           3750, 3760, 12690, 12700),
      R("Seodaemun-gu",      3750, 3760, 12690, 12700),
      R("Seocho-gu",         3740, 3750, 12700, 12710),
      R("Seongdong-gu",      3750, 3760, 12700, 12710),
      R("Seongbuk-gu",       3750, 3760, 12700, 12710),
      R("Songpa-gu",         3750, 3760, 12710, 12720),
      R("Yangcheon-gu",      3750, 3760, 12680, 12690),
      R("Yeongdeungpo-gu",   3750, 3760, 12690, 12700),
      R("Yongsan-gu",        3750, 3760, 12690, 12700),
      R("Eunpyeong-gu",      3760, 3770, 12690, 12700),
      R("Jongno-gu",         3750, 3760, 12700, 12710),
      R("Jung-gu",           3750, 3760, 12700, 12710),
      R("Jungnang-gu",       3750, 3760, 12710, 12720),
      R("Suwon-si",          3720, 3730, 12690, 12700),
      R("Seongnam-si",       3740, 3750, 12710, 12720),
      R("Yongin-si",         3720, 3730, 12710, 12720),
      R("Bucheon-si",        3750, 3760, 12670, 12680),
      R("Ansan-si",          3730, 3740, 12680, 12690),
      R("Anyang-si",         3730, 3740, 12690, 12700),
      R("Pyeongtaek-si",     3690, 3700, 12710, 12720),
      R("Siheung-si",        3730, 3740, 12680, 12690),
      R("Gimpo-si",          3760, 3770, 12660, 12670),
      R("Gwangmyeong-si",    3740, 3750, 12680, 12690),
      R("Gwangju-si",        3740, 3750, 12720, 12730),
      R("Gunpo-si",          3730, 3740, 12690, 12700),
      R("Hanam-si",          3750, 3760, 12720, 12730),
      R("Osan-si",           3710, 3720, 12700, 12710),
      R("Icheon-si",         3720, 3730, 12740, 12750),
      R("Anseong-si",        3700, 3710, 12720, 12730),
      R("Uiwang-si",         3730, 3740, 12700, 12710),
      R("Yangpyeong-gun",    3740, 3750, 12740, 12750),
      R("Yeoju-si",          3720, 3730, 12760, 12770),
      R("Gwacheon-si",       3740, 3750, 12700, 12710),
      R("Goyang-si",         3760, 3770, 12680, 12690),
      R("Namyangju-si",      3760, 3770, 12720, 12730),
      R("Paju-si",           3780, 3790, 12670, 12680),
      R("Uijeongbu-si",      3770, 3780, 12700, 12710),
      R("Yangju-si",         3780, 3790, 12700, 12710),
      R("Guri-si",           3750, 3760, 12710, 12720),
      R("Pocheon-si",        3780, 3790, 12720, 12730),
      R("Dongducheon-si",    3790, 3800, 12700, 12710),
      R("Gapyeong-gun",      3780, 3790, 12740, 12750),
      R("Yeoncheon-gun",     3800, 3810, 12700, 12710),
      R("Jung-gu",           3510, 3520, 12900, 12910),
      R("Seo-gu",            3510, 3520, 12900, 12910),
      R("Dong-gu",           3510, 3520, 12900, 12910),
      R("Yeongdo-gu",        3500, 3510, 12900, 12910),
      R("Busanjin-gu",       3510, 3520, 12900, 12910),
      R("Dongnae-gu",        3520, 3530, 12900, 12910),
      R("Nam-gu",            3510, 3520, 12900, 12910),
      R("Buk-gu",            3520, 3530, 12900, 12910),
      R("Haeundae-gu",       3510, 3520, 12910, 12920),
      R("Saha-gu",           3500, 3510, 12900, 12910),
      R("Geumjeong-gu",      3520, 3530, 12900, 12910),
      R("Gangseo-gu",        3520, 3530, 12890, 12900),
      R("Yeonje-gu",         3520, 3530, 12900, 12910),
      R("Suyeong-gu",        3510, 3520, 12910, 12920),
      R("Sasang-gu",         3510, 3520, 12890, 12900),
      R("Gijang-gun",        3520, 3530, 12920, 12930),
      R("Jung-gu",           3580, 3590, 12850, 12860),
      R("Dong-gu",           3580, 3590, 12860, 12870),
      R("Seo-gu",            3580, 3590, 12850, 12860),
      R("Nam-gu",            3580, 3590, 12850, 12860),
      R("Buk-gu",            3580, 3590, 12850, 12860),
      R("Suseong-gu",        3580, 3590, 12860, 12870),
      R("Dalseo-gu",         3580, 3590, 12850, 12860),
      R("Dalseong-gun",      3570, 3580, 12840, 12850),
      R("Jung-gu",           3740, 3750, 12650, 12660),
      R("Dong-gu",           3740, 3750, 12660, 12670),
      R("Michuhol-gu",       3740, 3750, 12660, 12670),
      R("Yeonsu-gu",         3740, 3750, 12660, 12670),
      R("Namdong-gu",        3740, 3750, 12670, 12680),
      R("Bupyeong-gu",       3750, 3760, 12670, 12680),
      R("Gyeyang-gu",        3750, 3760, 12670, 12680),
      R("Seo-gu",            3750, 3760, 12660, 12670),
      R("Ganghwa-gun",       3770, 3780, 12640, 12650),
      R("Ongjin-gun",        3740, 3750, 12630, 12640),
      R("Gwangju-si",        3510, 3520, 12680, 12690),
      R("Daejeon-si",        3620, 3640, 12730, 12750),
      R("Ulsan-si",          3540, 3560, 12920, 12940),
      R("Sejong-si",         3640, 3660, 12720, 12740),
      R("Jeju-si",           3340, 3360, 12650, 12670),
      R("Gangwon-do",        3700, 3850, 12750, 12950),
      R("Chungcheongbuk-do", 3600, 3750, 12700, 12850),
      R("Chungcheongnam-do", 3550, 3700, 12600, 12750),
      R("Jeollabuk-do",      3550, 3650, 12650, 12780),
      R("Jeollanam-do",      3450, 3600, 12600, 12750),
      R("Gyeongsangbuk-do",  3550, 3750, 12800, 12950),
      R("Gyeongsangnam-do",  3450, 3600, 12750, 12900)>>

RECURSIVE DictLiteral(_, _)
\* What Python builds from a dict literal: a key is at the position of its
\* first entry and has the value of its last entry.
DictLiteral(w, i) ==
    IF i > Len(w) THEN <<>>
    ELSE (IF \E j \in 1..(i - 1) : w[j].region = w[i].region THEN <<>>
          ELSE LET last == CHOOSE j \in i..Len(w) :
                              /\ w[j].region = w[i].region
                              /\ \A k \in (j + 1)..Len(w) : w[k].region # w[i].region
               IN <<w[last]>>)
         \o DictLiteral(w, i + 1)

\* region_ranges, in the order region_ranges.items() gives
region_ranges == DictLiteral(region_ranges_written, 1)

RECURSIVE FirstRange(_, _, _, _)
FirstRange(lat, lon, ranges, i) ==
    IF i > Len(ranges) THEN "-"
    ELSE IF /\ Between(ranges[i].lat[1], lat, ranges[i].lat[2])
            /\ Between(ranges[i].lon[1], lon, ranges[i].lon[2])
         THEN ranges[i].region
    ELSE FirstRange(lat, lon, ranges, i + 1)

\* find_region_by_coordinates ('기타' is "other")
find_region_by_coordinates(lat, lon) ==
    LET r == FirstRange(lat, lon, region_ranges, 1)
    IN IF r # "-" THEN r
       ELSE IF Between(3700, lat, 3800) /\ Between(12650, lon, 12750) THEN "Gyeonggi_other"
       ELSE IF Between(3550, lat, 3650) /\ Between(12700, lon, 12850) THEN "Chungbuk_other"
       ELSE IF Between(3500, lat, 3600) /\ Between(12800, lon, 12900) THEN "Gyeongbuk_other"
       ELSE "other"

\* lambda row: find_region_by_coordinates(row['위도'], row['경도']), by the
\* place of the row
RegionOf == [pl \in Places |-> find_region_by_coordinates(pl.lat, pl.lon)]

\* Series.mean() over the rows in members: NaN is skipped
RECURSIVE SumOf(_, _, _)
SumOf(rows, members, col) ==
    IF members = {} THEN [sum |-> 0, n |-> 0]
    ELSE LET i == CHOOSE j \in members : TRUE
             rest == SumOf(rows, members \ {i}, col)
             x == rows[i][col]
         IN IF x.k = "num" THEN [sum |-> rest.sum + x.v, n |-> rest.n + 1] ELSE rest
Mean(rows, members, col) ==
    LET t == SumOf(rows, members, col)
    IN IF t.n = 0 THEN NaN ELSE Num((t.sum * MeanScale) \div t.n)

\* calculate_weighted_score of the map script: no test for NaN, the float
\* arithmetic carries it
script_weighted_score(tp_value, tn_value) ==
    IF tp_value.k # "num" \/ tn_value.k # "num" THEN NaN
    ELSE Num(tp_value.v * TpWeight + tn_value.v * TnWeight)

\* groupby(key).agg(mean) and the score column: one record per key that has
\* rows, in key order.  key[i] is the key of row i ("-": the row is not in).
RECURSIVE GroupBy(_, _, _)
GroupBy(rows, key, i) ==
    IF i > Len(NameOrder) THEN <<>>
    ELSE LET members == {j \in 1..Len(rows) : key[j] = NameOrder[i]}
             tp == Mean(rows, members, "tp")
             tn == Mean(rows, members, "tn")
         IN (IF members = {} THEN <<>>
             ELSE <<[name |-> NameOrder[i], members |-> members, tp |-> tp, tn |-> tn,
                     score |-> script_weighted_score(tp, tn), level |-> "-"]>>)
            \o GroupBy(rows, key, i + 1)

\* The '경보_단계' column: every region against all region scores.
WithPercentileLevels(stats) ==
    LET all_scores == [i \in 1..Len(stats) |-> stats[i].score]
    IN [i \in 1..Len(stats) |->
          [stats[i] EXCEPT !.level = calculate_alert_level_by_percentile(stats[i].score, all_scores)]]

\* The outcome of a run: the frame as the run leaves it, the region table
\* (none: the run returned None), the statistics shown for each polygon
\* (0: the polygon is drawn without data) and the counter the run prints.
Outcome(df, raised, none, stats, shown, unmatched_count) ==
    [df |-> df, raised |-> raised, none |-> none, stats |-> stats, shown |-> shown,
     unmatched_count |-> unmatched_count]
NoShown == [p \in {q.pid : q \in Polygons} |-> 0]
Raised(df) == Outcome(df, TRUE, FALSE, <<>>, NoShown, 0)
ReturnedNone(df) == Outcome(df, FALSE, TRUE, <<>>, NoShown, 0)

\* valid_data: notna and != 0 on both coordinates
ValidCoordinates(r) ==
    /\ r.pl.lat.k = "num" /\ r.pl.lon.k = "num"
    /\ r.pl.lat.v # 0 /\ r.pl.lon.v # 0

\* gpd.sjoin(predicate='within'): the SGG_NM of the polygon a valid row lies in
JoinedName(r) ==
    IF ValidCoordinates(r) /\ \E p \in Polygons : r.pl.id \in p.covers
    THEN (CHOOSE p \in Polygons : r.pl.id \in p.covers).name
    ELSE "-"

\* The index in stats of the region called name, 0 if there is none.
RegionIndex(stats, name) ==
    IF \E i \in 1..Len(stats) : stats[i].name = name
    THEN CHOOSE i \in 1..Len(stats) : stats[i].name = name
    ELSE 0

\* create_integrated_water_quality_map from step 3 on.  empty_raises: whether
\* DataFrame.apply(axis=1) of an empty frame, assigned to a column, raises.
create_integrated_water_quality_map(df, empty_raises) ==
    IF df.isNone THEN Raised(df)                       \* None['위도']: TypeError
    ELSE LET rows == df.rows
             valid == {i \in 1..Len(rows) : ValidCoordinates(rows[i])}
             key == [i \in 1..Len(rows) |-> JoinedName(rows[i])]
             stats == WithPercentileLevels(GroupBy(rows, key, 1))
             shown == [p \in {q.pid : q \in Polygons} |->
                         RegionIndex(stats, (CHOOSE q \in Polygons : q.pid = p).name)]
         IN IF valid = {} /\ empty_raises THEN Raised(df)
            ELSE IF stats = <<>> THEN ReturnedNone(df)
            ELSE Outcome(df, FALSE, FALSE, stats, shown,
                         Cardinality({p \in DOMAIN shown : shown[p] = 0}))

\* Mutant of group_by_administrative_region: a frame that already has the
\* '시군구' column is read by column position, so no row finds its region.
group_by_administrative_region_positional(df, empty_raises) ==
    IF df.isNone THEN Raised(df)
    ELSE IF df.rows = <<>>
         THEN (IF empty_raises THEN Raised(df) ELSE Outcome(df, FALSE, FALSE, <<>>, NoShown, 0))
    ELSE LET rows == [i \in 1..Len(df.rows) |->
                        [df.rows[i] EXCEPT !.sgg =
                            IF df.rows[i].sgg # "-" THEN "other"
                            ELSE RegionOf[df.rows[i].pl]]]
             key == [i \in 1..Len(rows) |-> rows[i].sgg]
         IN Outcome(Frame(rows), FALSE, FALSE, WithPercentileLevels(GroupBy(rows, key, 1)),
                    NoShown, 0)

\* group_by_administrative_region: the '시군구' column is written into the
\* caller's frame.
group_by_administrative_region(df, empty_raises) ==
    IF df.isNone THEN Raised(df)                       \* None.apply: AttributeError
    ELSE IF df.rows = <<>>
         THEN (IF empty_raises THEN Raised(df) ELSE Outcome(df, FALSE, FALSE, <<>>, NoShown, 0))
    ELSE LET rows == [i \in 1..Len(df.rows) |->
                        [df.rows[i] EXCEPT !.sgg =
                            RegionOf[df.rows[i].pl]]]
             key == [i \in 1..Len(rows) |-> rows[i].sgg]
         IN Outcome(Frame(rows), FALSE, FALSE, WithPercentileLevels(GroupBy(rows, key, 1)),
                    NoShown, 0)

\* categorize_risk_level on a region score (in 1/(1000 * MeanScale))
categorize_regional(score) ==
    IF IsNa(score) THEN "unknown"
    ELSE IF score.v <= LowMax * 10 * MeanScale THEN "low"
    ELSE IF score.v <= MediumMax * 10 * MeanScale THEN "medium"
    ELSE IF score.v <= HighMax * 10 * MeanScale THEN "high"
    ELSE "very_high"

\* Mutant of RegionalScore: the scorer is applied to the region means.
RegionalScoreOfMeans(rows, members) ==
    script_weighted_score(Mean(rows, members, "tp"), Mean(rows, members, "tn"))

\* score_mean of calculate_regional_risk: the mean of the rows' weighted_score
\* column, which calculate_risk_scores filled with calculate_weighted_score
RegionalScore(rows, members) ==
    LET scored == [i \in 1..Len(rows) |->
                      [weighted_score |-> calculate_weighted_score(rows[i].tp, rows[i].tn)]]
    IN Mean(scored, members, "weighted_score")

RECURSIVE RegionalGroups(_, _)
RegionalGroups(rows, i) ==
    IF i > Len(NameOrder) THEN <<>>
    ELSE LET members == {j \in 1..Len(rows) : rows[j].pl.region = NameOrder[i]}
             score == RegionalScore(rows, members)
         IN (IF members = {} THEN <<>>
             ELSE <<[name |-> NameOrder[i], members |-> members,
                     tp |-> Mean(rows, members, "tp"), tn |-> Mean(rows, members, "tn"),
                     score |-> score, level |-> categorize_regional(score)]>>)
            \o RegionalGroups(rows, i + 1)

\* RiskCalculator.calculate_regional_risk
calculate_regional_risk(data) ==
    IF data.isNone \/ data.rows = <<>> THEN ReturnedNone(data)
    ELSE Outcome(data, FALSE, FALSE, RegionalGroups(data.rows, 1), NoShown, 0)

\* empty_raises: what the installed pandas does when the result of
\* DataFrame.apply(axis=1) on an empty frame is assigned to a column.
AggOff == [phase |-> "off", input |-> NoFrame, fault |-> "none", empty_raises |-> FALSE,
           first |-> ReturnedNone(NoFrame), out |-> ReturnedNone(NoFrame)]

\* What collect_data returned (input), and whether the loader of the map
\* script meets a fault; with a fault one row is enough, the rows are not read.
InitAgg ==
    \/ \E n \in 0..MaxReadings, empty_raises \in BOOLEAN :
         \E rows \in [1..n -> Readings] :
           \E absent \in IF n = 0 THEN BOOLEAN ELSE {FALSE} :
               agg = [AggOff EXCEPT !.phase = "input",
                                    !.empty_raises = empty_raises,
                                    !.input = IF absent THEN NoFrame ELSE Frame(rows)]
    \/ \E fault \in Faults \ {"none"}, empty_raises \in BOOLEAN :
         \E n \in IF fault = "collector_error" THEN {0} ELSE 0..1 :
           \E rows \in [1..n -> Readings] :
               agg = [AggOff EXCEPT !.phase = "input",
                                    !.fault = fault,
                                    !.empty_raises = empty_raises,
                                    !.input = IF fault = "collector_error"
                                              THEN NoFrame ELSE Frame(rows)]

\* create_integrated_water_quality_map on what collect_data returned
SpatialJoin ==
    /\ agg.phase = "input"
    /\ agg' = [agg EXCEPT !.phase = "spatial",
                          !.out = create_integrated_water_quality_map(
                                      load_real_water_quality_data(agg.input, agg.fault),
                                      agg.empty_raises)]
    /\ UNCHANGED notAgg

\* group_by_administrative_region(water_quality_df), first call
BoundingRectangles ==
    /\ agg.phase = "input"
    /\ agg.fault = "none"
    /\ LET o == group_by_administrative_region(agg.input, agg.empty_raises)
       IN agg' = [agg EXCEPT !.phase = "rect", !.first = o, !.out = o]
    /\ UNCHANGED notAgg

\* group_by_administrative_region on the same frame again
BoundingRectanglesAgain ==
    /\ agg.phase = "rect"
    /\ ~agg.first.raised
    /\ agg' = [agg EXCEPT !.phase = "rect2",
                          !.out = group_by_administrative_region(agg.first.df,
                                                                 agg.empty_raises)]
    /\ UNCHANGED notAgg

\* RiskCalculator.calculate_regional_risk(data)
RegionalRisk ==
    /\ agg.phase = "input"
    /\ agg.fault = "none"
    /\ agg' = [agg EXCEPT !.phase = "regional", !.out = calculate_regional_risk(agg.input)]
    /\ UNCHANGED notAgg

(***************************************************************************)
(* RiskCalculator.calculate_trend_analysis.  A row is [day, score]: its     *)
(* measurement_date as a day number and its weighted_score.                *)
(***************************************************************************)
TrendData(isNone, has_date, rows) == [isNone |-> isNone, has_date |-> has_date, rows |-> rows]
TrendRows == {[day |-> d, weighted_score |-> x] : d \in 0..MaxDay, x \in {NaN, Num(1), Num(3)}}

\* data.groupby('date'): the distinct days, ascending
Days(rows) == {rows[i].day : i \in 1..Len(rows)}

\* daily_stats['avg_score'] of day d, in 1/TrendScale
TrendScale == Factorial(MaxTrendRows)
DayRows(rows, d) == {i \in 1..Len(rows) : rows[i].day = d}
avg_score(rows, d) ==
    LET t == SumOf(rows, DayRows(rows, d), "weighted_score")
    IN IF t.n = 0 THEN NaN ELSE Num((t.sum * TrendScale) \div t.n)

\* (dates - dates.min()).dt.days: dates is a DatetimeIndex, the difference a
\* TimedeltaIndex, which has no .dt accessor: AttributeError
dt_days(days) == [exc |-> TRUE, val |-> days]

\* The sign of the slope np.polyfit(date_nums, scores, 1) fits:
\* n * sum(x*y) - sum(x) * sum(y) over the days (NaN if a score is NaN)
RECURSIVE SumOver(_, _)
SumOver(S, f) ==
    IF S = {} THEN 0
    ELSE LET d == CHOOSE e \in S : TRUE IN f[d] + SumOver(S \ {d}, f)
polyfit_slope(rows, days) ==
    LET lo == CHOOSE d \in days : \A e \in days : d <= e
        y == [d \in days |-> avg_score(rows, d)]
        n == Cardinality(days)
    IN IF \E d \in days : y[d].k # "num" THEN NaN
       ELSE Num(n * SumOver(days, [d \in days |-> (d - lo) * y[d].v])
                - SumOver(days, [d \in days |-> d - lo]) * SumOver(days, [d \in days |-> y[d].v]))

NoTrend == [none |-> TRUE, trend_slope |-> NaN, trend_direction |-> "-"]

\* RiskCalculator.calculate_trend_analysis
calculate_trend_analysis(data) ==
    IF data.isNone \/ data.rows = <<>> THEN NoTrend
    ELSE IF ~data.has_date THEN NoTrend
    ELSE LET days == Days(data.rows)
             date_nums == dt_days(days)
             trend_slope == polyfit_slope(data.rows, date_nums.val)
         IN IF Cardinality(days) > 1
            THEN (IF date_nums.exc THEN NoTrend                 \* except Exception
                  ELSE [none |-> FALSE, trend_slope |-> trend_slope,
                        trend_direction |->
                            IF trend_slope.k = "num" /\ trend_slope.v > 0
                            THEN "increasing" ELSE "decreasing"])
            ELSE NoTrend

TrdOff == [phase |-> "off", data |-> TrendData(TRUE, FALSE, <<>>), result |-> NoTrend]

InitTrd ==
    \E n \in 0..MaxTrendRows, has_date \in BOOLEAN :
      \E rows \in [1..n -> TrendRows] :
        \E absent \in IF n = 0 THEN BOOLEAN ELSE {FALSE} :
            trd = [TrdOff EXCEPT !.phase = "input",
                                 !.data = TrendData(absent, has_date, rows)]

\* One call of calculate_trend_analysis(data).
TrendAnalysis ==
    /\ trd.phase = "input"
    /\ trd' = [trd EXCEPT !.phase = "done", !.result = calculate_trend_analysis(trd.data)]
    /\ UNCHANGED notTrd

(***************************************************************************)
(* WaterQualityCollector._load_local_csv_files, row by row.  A row of a     *)
(* legacy source: the source it is from, its TP and TN cells ("num" or      *)
(* "nan") and whether _parse_coordinate accepts both its coordinates.       *)
(***************************************************************************)
\* config.get_local_csv_files(), in the order the sources are merged
LegacySources == <<"river", "agricultural", "urban", "industrial", "reservoir">>
LegacySourceSet == {LegacySources[i] : i \in 1..Len(LegacySources)}
\* the sources whose block calls dropna(subset=['TN_mgL', 'TP_mgL'])
DropsMissing == {"urban", "industrial", "reservoir"}

LegacyRow(src, tp, tn, coord_ok) == [src |-> src, tp |-> tp, tn |-> tn, coord_ok |-> coord_ok]

RECURSIVE SelectRows(_, _, _)
\* the rows of s from the source src, without the rows dropna removes
SelectRows(s, src, drop) ==
    IF s = <<>> THEN <<>>
    ELSE (IF Head(s).src = src /\ ~(drop /\ (Head(s).tp = "nan" \/ Head(s).tn = "nan"))
          THEN <<Head(s)>> ELSE <<>>) \o SelectRows(Tail(s), src, drop)

\* One source block: os.path.exists, read_csv, the column names and, for
\* three of the sources, dropna on the pollutant columns.
LegacySourceData(files, src) == SelectRows(files[src].rows, src, src \in DropsMissing)

RECURSIVE CombineSources(_, _, _)
\* combined_data after the blocks i..5: [isNone, rows]
CombineSources(files, i, combined) ==
    IF i > Len(LegacySources) THEN combined
    ELSE LET src == LegacySources[i]
             data == LegacySourceData(files, src)
         IN CombineSources(files, i + 1,
                IF ~files[src].exists THEN combined
                ELSE IF combined.isNone THEN Frame(data)
                ELSE Frame(combined.rows \o data))

\* valid_data = combined_data.dropna(subset=['경도_변환', '위도_변환'])
ValidLegacy(rows) == SelectSeq(rows, LAMBDA r : r.coord_ok)

\* _load_local_csv_files on the files as they are; read_error: a read_csv or
\* a column assignment raises, and the except clause returns None.
_load_local_csv_files_rows(files, read_error) ==
    LET combined_data == CombineSources(files, 1, NoFrame)
    IN IF read_error THEN NoFrame
       ELSE IF ~combined_data.isNone /\ combined_data.rows # <<>>
            THEN Frame(ValidLegacy(combined_data.rows))
       ELSE NoFrame

LegOff == [phase |-> "off",
           files |-> [s \in LegacySourceSet |-> [exists |-> FALSE, rows |-> <<>>]],
           read_error |-> FALSE, result |-> NoFrame]

InitLeg ==
    \E present \in SUBSET LegacySourceSet, n \in 0..MaxLegacyRows :
      \E read_error \in IF present = {} THEN {FALSE} ELSE BOOLEAN :
        \E rows \in [1..n -> {LegacyRow(s, tp, tn, c) : s \in present, tp \in {"num", "nan"},
                                                        tn \in {"num", "nan"}, c \in BOOLEAN}] :
            leg = [LegOff EXCEPT
                     !.phase = "input",
                     !.read_error = read_error,
                     !.files = [s \in LegacySourceSet |->
                                  [exists |-> s \in present,
                                   rows |-> SelectRows(rows, s, FALSE)]]]

\* One call of _load_local_csv_files().
LoadLocalCsvFiles ==
    /\ leg.phase = "input"
    /\ leg' = [leg EXCEPT !.phase = "done",
                          !.result = _load_local_csv_files_rows(leg.files, leg.read_error)]
    /\ UNCHANGED notLeg

(***************************************************************************)
(* Calls of find_region_by_coordinates: one call on one coordinate pair,   *)
(* and the apply of group_by_administrative_region over a frame that has   *)
(* one station at every point of a grid.                                   *)
(***************************************************************************)
\* A grid of 0.05 degree: every rectangle bound is a multiple of 0.1.
LatGrid == {x \in 3300..MaxLat : x % 5 = 0}
LonGrid == {x \in 12550..MaxLon : x % 5 = 0}

LocOff == [phase |-> "off", lat |-> NaN, lon |-> NaN, region |-> "-", regions |-> {}]

\* One coordinate pair (None and NaN included), or the grid frame.
InitLoc ==
    \/ \E lat \in {Num(x) : x \in LatGrid} \cup {NaN, NoneV},
          lon \in {Num(x) : x \in LonGrid} \cup {NaN} :
            loc = [LocOff EXCEPT !.phase = "input", !.lat = lat, !.lon = lon]
    \/ loc = [LocOff EXCEPT !.phase = "frame"]

\* One call of find_region_by_coordinates(lat, lon).
FindRegion ==
    /\ loc.phase = "input"
    /\ loc' = [loc EXCEPT !.phase = "done",
                          !.region = find_region_by_coordinates(loc.lat, loc.lon)]
    /\ UNCHANGED notLoc

\* water_quality_df.apply(lambda row: find_region_by_coordinates(...), axis=1)
\* on the grid frame: the values of the '시군구' column.
AssignRegions ==
    /\ loc.phase = "frame"
    /\ loc' = [loc EXCEPT !.phase = "assigned",
                          !.regions = {find_region_by_coordinates(Num(lat), Num(lon)) :
                                          lat \in LatGrid, lon \in LonGrid}]
    /\ UNCHANGED notLoc

\* The subsystems added last at rest.
AuxOff == leg = LegOff /\ loc = LocOff

\* The map script and the trend analysis at rest.
MapOff == pct = PctOff /\ crd = CrdOff /\ agg = AggOff /\ trd = TrdOff /\ AuxOff

\* The collector at rest, for the specifications that are not about it.
CollectorOff ==
    /\ InitCollector
    /\ wq_file = Absent
    /\ st_file = Absent

InitScore == CollectorOff /\ MapOff /\ (InitScorer \/ InitIndex)

NextScore ==
    \/ ScoreHelpers
    \/ ScorePipeline
    \/ ScoreAlert
    \/ ClassifyHelpers
    \/ ClassifyMap

SpecScore == InitScore /\ [][NextScore]_vars

InitPercentile ==
    /\ CollectorOff /\ sc = ScOff /\ InitPct /\ crd = CrdOff /\ agg = AggOff /\ trd = TrdOff
    /\ AuxOff

NextPercentile == ClassifyPercentile

SpecPercentile == InitPercentile /\ [][NextPercentile]_vars

InitRegionLevels ==
    /\ CollectorOff /\ sc = ScOff /\ InitRegionTable /\ crd = CrdOff /\ agg = AggOff
    /\ trd = TrdOff /\ AuxOff

NextRegionLevels == ClassifyRegions

SpecRegionLevels == InitRegionLevels /\ [][NextRegionLevels]_vars

InitCoordinate ==
    /\ CollectorOff /\ sc = ScOff /\ pct = PctOff /\ InitCrd /\ agg = AggOff /\ trd = TrdOff
    /\ AuxOff

InitAggregate ==
    /\ CollectorOff /\ sc = ScOff /\ pct = PctOff /\ crd = CrdOff /\ InitAgg /\ trd = TrdOff
    /\ AuxOff

InitTrend ==
    /\ CollectorOff /\ sc = ScOff /\ pct = PctOff /\ crd = CrdOff /\ agg = AggOff /\ InitTrd
    /\ AuxOff

NextTrend == TrendAnalysis

SpecTrend == InitTrend /\ [][NextTrend]_vars

InitLegacy ==
    /\ CollectorOff /\ sc = ScOff /\ pct = PctOff /\ crd = CrdOff /\ agg = AggOff /\ trd = TrdOff
    /\ InitLeg /\ loc = LocOff

InitRegion ==
    /\ CollectorOff /\ sc = ScOff /\ pct = PctOff /\ crd = CrdOff /\ agg = AggOff /\ trd = TrdOff
    /\ leg = LegOff /\ InitLoc

NextRegion == FindRegion \/ AssignRegions

SpecRegion == InitRegion /\ [][NextRegion]_vars

NextLegacy == LoadLocalCsvFiles

SpecLegacy == InitLegacy /\ [][NextLegacy]_vars

NextAggregate ==
    \/ SpatialJoin
    \/ BoundingRectangles
    \/ BoundingRectanglesAgain
    \/ RegionalRisk

SpecAggregate == InitAggregate /\ [][NextAggregate]_vars

NextCoordinate == ParseCollector \/ ParseScript

SpecCoordinate == InitCoordinate /\ [][NextCoordinate]_vars

Init == InitCollector /\ sc = ScOff /\ MapOff

Next ==
    \/ CollectStart
    \/ Probe
    \/ FetchDay
    \/ FetchEnd
    \/ Backup
    \/ WriteWaterQuality
    \/ WriteStations
    \/ LoadExisting

Spec == Init /\ [][Next]_vars

(***************************************************************************)
(* Properties                                                              *)
(***************************************************************************)
Done == pc = "done"
\* the remote tier produced a validated, non-empty table
RemoteOk == ~api_data.isNone /\ ~IsEmpty(api_data)
\* a canonical file existed when the call started
PreWq == Exists(hist.old_wq)
PreSt == Exists(hist.old_st)

\* C1: a canonical cache file that existed before the refresh is written only
\* after a backup copy of that file was completed in the same refresh; when the
\* copy fails the file is not written.
C1_WriteOnlyAfterBackup ==
    /\ (hist.wrote.wq /\ PreWq) => hist.bk.wq
    /\ (hist.wrote.st /\ PreSt) => hist.bk.st

\* C2: the tiers are opened in the order remote, cache, legacy; the cache is
\* read only after the remote tier failed, the legacy merge is tried only
\* after the remote tier failed with no canonical cache file on disk, and no
\* tier is opened after one that yielded data.
C2_TierOrder ==
    /\ hist.tiers \in {<<>>, <<"remote">>, <<"remote", "cache">>, <<"remote", "legacy">>}
    /\ (\E i \in 1..Len(hist.tiers) : hist.tiers[i] \in {"cache", "legacy"}) =>
          /\ ~RemoteOk
          /\ ~hist.probe_ok \/ day > DaysBack
    /\ (\E i \in 1..Len(hist.tiers) : hist.tiers[i] = "legacy") => ~Exists(wq_file)
    /\ (Done /\ RemoteOk) => hist.tiers = <<"remote">>
    /\ (Done /\ ~RemoteOk /\ Exists(wq_file)) => hist.tiers = <<"remote", "cache">>
    /\ (Done /\ ~RemoteOk /\ ~Exists(wq_file)) => hist.tiers = <<"remote", "legacy">>

C2_Witness ==
    /\ Done
    /\ hist.tiers = <<"remote", "legacy">>
    /\ hist.probe_ok
    /\ result = LegacyTable

\* C3: remote data is returned only when the probe and every daily request
\* of the call succeeded; any failed remote call makes the call fall through
\* to the cache tier.
C3_AnyRemoteFailureFallsThrough ==
    Done => /\ RemoteOk => (hist.probe_ok /\ ~day_failed)
            /\ (~hist.probe_ok \/ day_failed) =>
                  \E i \in 1..Len(hist.tiers) : hist.tiers[i] \in {"cache", "legacy"}

\* a tier yielded a non-empty table: the remote tier, a readable cache file
\* with rows, or (without a cache file) legacy sources with usable rows
SomeTierYielded ==
    \/ RemoteOk
    \/ wq_file.kind = "csv" /\ wq_file.rows # <<>> /\ wq_file.cols # {}
    \/ ~Exists(wq_file) /\ local_csv = "rows"

\* C4: no exception leaves collect_data; it returns a non-empty table or None,
\* and None exactly when no tier yielded a non-empty table.
C4_NeverRaises ==
    /\ pc # "raised"
    /\ ~hist.raised
    /\ Done => /\ result.isNone \/ ~IsEmpty(result)
               /\ result.isNone <=> ~SomeTierYielded

C4_Witness ==
    /\ Done
    /\ hist.probe_ok
    /\ day_failed
    /\ wq_file = Corrupt
    /\ result.isNone

\* the cache refresh of this call failed: a backup copy or a write raised
RefreshFailed ==
    \/ success = "false"
    \/ PreWq /\ ~hist.bk.wq
    \/ PreSt /\ ~hist.bk.st

\* C5: when the remote tier produced a validated non-empty table and the cache
\* refresh then fails, collect_data returns that remote table.
C5_RemoteTableReturned ==
    (Done /\ RemoteOk /\ RefreshFailed) =>
        /\ ~result.isNone
        /\ result = all_data
        /\ result = api_data

C5_Witness ==
    /\ Done
    /\ RemoteOk
    /\ success = "false"
    /\ wq_file = Corrupt
    /\ result = api_data

\* the rows of a table are the rows of a CSV file, field by field
RowsOfFile(t, f) ==
    /\ ~t.isNone
    /\ t.cols = f.cols
    /\ Len(t.rows) = Len(f.rows)
    /\ \A i \in 1..Len(f.rows) :
          /\ t.rows[i].rec = f.rows[i].rec
          /\ t.rows[i].pt = f.rows[i].pt
          /\ (f.rows[i].tp = "blank") <=> (t.rows[i].tp = "nan")
          /\ (f.rows[i].tn = "blank") <=> (t.rows[i].tn = "nan")
          /\ (f.rows[i].tp = "text") <=> (t.rows[i].tp = "txt")
          /\ (f.rows[i].tn = "text") <=> (t.rows[i].tn = "txt")
          /\ (f.rows[i].tp = "numtext") <=> (t.rows[i].tp \in {"num", "numstr"})
          /\ (f.rows[i].tn = "numtext") <=> (t.rows[i].tn \in {"num", "numstr"})

DiskUnchanged ==
    /\ wq_file = hist.old_wq
    /\ st_file = hist.old_st
    /\ backup_dir = hist.old_dir

NoLegacy == \A i \in 1..Len(hist.tiers) : hist.tiers[i] # "legacy"

\* C6 as stated: if the probe fails and a canonical cache file exists,
\* collect_data returns the rows of that file, does not run the legacy merge
\* and leaves the canonical files and the backup directory unchanged.
C6_ReturnsCacheRows ==
    (Done /\ ~hist.probe_ok /\ PreWq) =>
        /\ RowsOfFile(result, hist.old_wq)
        /\ NoLegacy
        /\ DiskUnchanged

\* C6 amended: if the probe fails and a canonical cache file exists,
\* collect_data returns the rows of that file when the file can be parsed and
\* has at least one row, and None otherwise; in both cases it does not run the
\* legacy merge and leaves the canonical files and the backup directory
\* unchanged.
C6_ReturnsCacheRowsIfReadable ==
    (Done /\ ~hist.probe_ok /\ PreWq) =>
        /\ IF hist.old_wq.kind = "csv" /\ hist.old_wq.rows # <<>>
           THEN RowsOfFile(result, hist.old_wq)
           ELSE result.isNone
        /\ NoLegacy
        /\ DiskUnchanged

C6_Witness ==
    /\ Done
    /\ ~hist.probe_ok
    /\ hist.old_wq = OldCache
    /\ local_csv = "absent"
    /\ Len(result.rows) = Len(OldCache.rows)

\* the validation gate has judged the combined table of this call
Judged == hist.probe_ok /\ (pc \notin {"probe", "fetch"}) /\ ~all_data.isNone /\ ~IsEmpty(all_data)
\* a pollutant value pd.to_numeric can coerce: a number, NaN, numeric text, ''
Coercible(c) == c # "txt"
AllCoercible(t) ==
    \A i \in 1..Len(t.rows) : Coercible(t.rows[i].tp) /\ Coercible(t.rows[i].tn)
RequiredPresent(t) == {"ptNo", "ptNm", "itemTp", "itemTn"} \subseteq t.cols

\* C7: the validation gate rejects a batch only if a required column is missing
\* or a pollutant value is not numerically coercible; a batch whose pollutant
\* values are all coercible (numeric text included) is accepted.
C7_RejectsOnlyUncoercible ==
    Judged => (RemoteOk <=> (RequiredPresent(all_data) /\ AllCoercible(all_data)))

BackupNames(dir) == {e.name : e \in dir}
\* dir holds a copy of f under a name with this stem that old does not use
FreshCopy(dir, old, stem, f) ==
    \E e \in dir : e.content = f /\ e.name[1] = stem /\ e.name \notin BackupNames(old)

\* C8: after a successful cache refresh that found a canonical file, the backup
\* directory holds a copy of the pre-refresh file under a timestamped name no
\* earlier backup has, and every earlier backup is still there.
C8_BackupKept ==
    (Done /\ success = "true") =>
        /\ PreWq => FreshCopy(backup_dir, hist.old_dir, "water_quality_data", hist.old_wq)
        /\ PreSt => FreshCopy(backup_dir, hist.old_dir, "measurement_stations", hist.old_st)
        /\ hist.old_dir \subseteq backup_dir

Scored == sc.phase \in {"helpers", "pipeline", "alert"}
Present(x) == x.k = "num"

\* C9: on every scoring path the weighted index is defined iff phosphorus and
\* nitrogen are both present, and a reading that lacks one of them gets the
\* unknown / no-data level.
C9_IndexIffBothPresent ==
    Scored =>
        /\ Present(sc.index) <=> (Present(sc.tp) /\ Present(sc.tn))
        /\ ~(Present(sc.tp) /\ Present(sc.tn)) => sc.level \in {"unknown", "no_data"}

Classified == sc.phase \in {"categorize", "classify"}

\* C10: fixed-threshold classification maps every index to one level by the
\* breakpoints 0.5, 1.0, 2.0 with inclusive upper bounds, and a null index to
\* unknown.
C10_FixedThresholds ==
    Classified =>
        /\ ~Present(sc.idx) => sc.level = "unknown"
        /\ (Present(sc.idx) /\ sc.idx.v <= 50) => sc.level = "low"
        /\ (Present(sc.idx) /\ 50 < sc.idx.v /\ sc.idx.v <= 100) => sc.level = "medium"
        /\ (Present(sc.idx) /\ 100 < sc.idx.v /\ sc.idx.v <= 200) => sc.level = "high"
        /\ (Present(sc.idx) /\ sc.idx.v > 200) => sc.level = "very_high"

C10_Witness ==
    /\ sc.phase = "classify"
    /\ sc.idx = Num(200)
    /\ sc.level = "high"

PctDone == pct.phase = "done"
PctLen == Len(pct.all_scores)
\* population members strictly below the score
PctBelow ==
    Cardinality({i \in 1..PctLen : /\ pct.all_scores[i].k = "num"
                                   /\ pct.score.k = "num"
                                   /\ pct.all_scores[i].v < pct.score.v})

\* C11: percentile classification returns level 1 for an empty population;
\* otherwise, with rank = 100 * (members strictly below the index) / size, it
\* returns level 1 for rank <= 20, level 2 for rank <= 40, level 3 for
\* rank <= 60, level 4 for rank <= 80 and level 5 for rank > 80.
C11_PercentileBands ==
    PctDone =>
        /\ PctLen = 0 => pct.level = "level1"
        /\ PctLen > 0 =>
              /\ (100 * PctBelow <= 20 * PctLen) => pct.level = "level1"
              /\ (20 * PctLen < 100 * PctBelow /\ 100 * PctBelow <= 40 * PctLen)
                    => pct.level = "level2"
              /\ (40 * PctLen < 100 * PctBelow /\ 100 * PctBelow <= 60 * PctLen)
                    => pct.level = "level3"
              /\ (60 * PctLen < 100 * PctBelow /\ 100 * PctBelow <= 80 * PctLen)
                    => pct.level = "level4"
              /\ (80 * PctLen < 100 * PctBelow) => pct.level = "level5"

C11_Witness ==
    /\ PctDone
    /\ PctLen = 5
    /\ PctBelow = 4
    /\ pct.level = "level4"

\* the population [0.1, 0.5, 1.0, 2.0, 5.0] and the value 1.0
PctExample ==
    /\ PctDone
    /\ pct.all_scores = <<Num(1), Num(5), Num(10), Num(20), Num(50)>>
    /\ pct.score = Num(10)

\* C12 as stated: in the population [0.1, 0.5, 1.0, 2.0, 5.0] the value 1.0
\* has rank 60% strictly below and gets level 3.
C12_ExampleLevel3 ==
    PctExample => (100 * PctBelow = 60 * PctLen /\ pct.level = "level3")

\* C12 amended: in the population [0.1, 0.5, 1.0, 2.0, 5.0] the value 1.0
\* has rank 40% strictly below (0.1 and 0.5) and gets level 2.
C12_ExampleLevel2 ==
    PctExample => (100 * PctBelow = 40 * PctLen /\ pct.level = "level2")

C12_Witness == PctExample /\ pct.level = "level2"

CrdDone == crd.phase \in {"collector", "script"}
\* the seconds written after D°M' : S, S.f or .f, in hundredths; -1 if none
WrittenSeconds(s) ==
    LET n == IF IsCh(s, Len(s), "quote") THEN Len(s) - 1 ELSE Len(s)
    IN IF n = 5 /\ IsNum(s, 5) THEN s[5].v * 100
       ELSE IF n = 7 /\ IsNum(s, 5) /\ IsCh(s, 6, "dot") /\ IsNum(s, 7)
            THEN s[5].v * 100 + (IF s[7].w = 1 THEN s[7].v * 10 ELSE s[7].v)
       ELSE IF n = 6 /\ IsCh(s, 5, "dot") /\ IsNum(s, 6)
            THEN (IF s[6].w = 1 THEN s[6].v * 10 ELSE s[6].v)
       ELSE -1
\* a degree-minute-second string: D°M'S, D°M'S.f or D°M'.f, with or without "
IsDms(s) ==
    /\ Len(s) >= 5
    /\ s[1].t = "num" /\ s[2].t = "deg" /\ s[3].t = "num" /\ s[4].t = "min"
    /\ WrittenSeconds(s) >= 0
\* the string starts like none of the four patterns
MatchesNone(s) ==
    ~(/\ Len(s) >= 5
      /\ s[1].t = "num" /\ s[2].t = "deg" /\ s[3].t = "num" /\ s[4].t = "min"
      /\ \/ s[5].t = "num"
         \/ s[5].t = "dot" /\ IsNum(s, 6))

\* C13: for a degree-minute-second string both normalizers return
\* degrees + minutes/60 + seconds/3600 with the degrees, minutes and seconds
\* written in the string, the fractional part of the seconds included; a string
\* that matches no pattern (and is no decimal number) yields null.
C13_DmsValue ==
    CrdDone =>
        /\ IsDms(crd.str) =>
              crd.result = [k |-> "num",
                            v |-> crd.str[1].v * 360000 + crd.str[3].v * 6000
                                    + WrittenSeconds(crd.str)]
        /\ (MatchesNone(crd.str) /\ ~LooksDecimal(crd.str)) => crd.result.k = "none"

AggRows == IF agg.phase = "spatial" THEN agg.out.df.rows ELSE agg.input.rows
\* a run that ended with a region table
Aggregated(phases) == agg.phase \in phases /\ ~agg.out.raised /\ ~agg.out.none
Within(x, lo, hi) == x.k = "num" /\ lo <= x.v /\ x.v <= hi
\* row i entered the statistics of some region
Contributes(i) == \E r \in 1..Len(agg.out.stats) : i \in agg.out.stats[r].members

\* C14: every reading that contributes to a region's statistics, in the
\* spatial-join path and in the bounding-rectangle path, has latitude in
\* [-90, 90] and longitude in [-180, 180]; a reading with a null or
\* out-of-range coordinate contributes to no region, the 'other' region
\* included.
C14_ContributorsInRange ==
    Aggregated({"spatial", "rect", "rect2"}) =>
        \A i \in 1..Len(AggRows) :
            Contributes(i) => /\ Within(AggRows[i].pl.lat, -9000, 9000)
                              /\ Within(AggRows[i].pl.lon, -18000, 18000)

\* the polygons that contain the point of row i
Containing(i) == {p \in Polygons : AggRows[i].pl.id \in p.covers}
\* row i is in the statistics shown for the polygon p
ShownFor(i, p) ==
    /\ agg.out.shown[p.pid] # 0
    /\ i \in agg.out.stats[agg.out.shown[p.pid]].members

\* C15: in the spatial-join aggregation a reading enters the statistics shown
\* for a polygon only if that polygon contains its point; a reading contained
\* in exactly one polygon is in that polygon's statistics and in no other
\* polygon's, also when polygons share a region name.
C15_OnlyContainingPolygon ==
    Aggregated({"spatial"}) =>
        \A i \in 1..Len(AggRows) : \A p \in Polygons :
            /\ ShownFor(i, p) => p \in Containing(i)
            /\ Containing(i) = {p} => ShownFor(i, p)

\* the readings whose point lies in no polygon
Unmatched == {i \in 1..Len(AggRows) : Containing(i) = {}}

\* C16: in the spatial-join aggregation a reading whose point lies in no
\* polygon is in no region's mean, and the unmatched counter the run reports is
\* the number of such readings.
C16_UnmatchedCounter ==
    Aggregated({"spatial"}) =>
        /\ \A i \in Unmatched : ~Contributes(i)
        /\ agg.out.unmatched_count = Cardinality(Unmatched)

\* the scorer on the means m_tp and m_tn: 0.99 * m_tp + 0.01 * m_tn, undefined
\* when a mean is
ScoreOfMeans(m_tp, m_tn) ==
    IF m_tp.k = "num" /\ m_tn.k = "num"
    THEN [k |-> "num", v |-> 99 * m_tp.v + m_tn.v]
    ELSE [k |-> "nan", v |-> 0]

\* C17: every region's weighted index is the scorer applied to the region's
\* mean phosphorus and mean nitrogen, not the mean of the readings' indices,
\* in the spatial-join aggregation, the bounding-rectangle aggregation and
\* calculate_regional_risk, also when a reading lacks a pollutant value.
C17_ScoreOfMeans ==
    Aggregated({"spatial", "rect", "rect2", "regional"}) =>
        \A r \in 1..Len(agg.out.stats) :
            agg.out.stats[r].score = ScoreOfMeans(agg.out.stats[r].tp, agg.out.stats[r].tn)

\* no reading of the set has usable coordinates
NoUsable ==
    \A i \in 1..Len(agg.input.rows) :
        ~(agg.input.rows[i].pl.lat.k = "num" /\ agg.input.rows[i].pl.lon.k = "num")

\* C18: when the reading set handed to the spatial-join aggregation is absent
\* or empty, or holds no reading with usable coordinates, the stage raises no
\* exception and produces no region.
C18_EmptyIsNoOp ==
    (agg.phase = "spatial" /\ (agg.input.isNone \/ NoUsable)) =>
        /\ ~agg.out.raised
        /\ agg.out.stats = <<>>

\* C19: a second run of group_by_administrative_region on the frame the first
\* run left (with its '시군구' column) gives the same region statistics and
\* alert levels as the first.
C19_Idempotent ==
    agg.phase = "rect2" =>
        /\ agg.out.raised = agg.first.raised
        /\ agg.out.stats = agg.first.stats
        /\ agg.out.df = agg.first.df

C19_Witness ==
    /\ agg.phase = "rect2"
    /\ Len(agg.out.stats) = 2
    /\ agg.input.rows[1].sgg = "-"
    /\ agg.first.df.rows[1].sgg = "Gangnam-gu"
    /\ agg.out.stats = agg.first.stats

\* the days on which the rows handed to the trend analysis were measured
TrendDays ==
    IF trd.data.isNone \/ ~trd.data.has_date THEN {}
    ELSE {trd.data.rows[i].day : i \in 1..Len(trd.data.rows)}

\* C20: trend analysis returns a slope and a direction whenever the data
\* spans at least 2 distinct days, with direction increasing iff the slope is
\* > 0; with fewer than 2 distinct days it returns None.
C20_TrendDirection ==
    trd.phase = "done" =>
        /\ Cardinality(TrendDays) >= 2 =>
              /\ ~trd.result.none
              /\ trd.result.trend_direction \in {"increasing", "decreasing"}
              /\ (trd.result.trend_direction = "increasing")
                    <=> (trd.result.trend_slope.k = "num" /\ trd.result.trend_slope.v > 0)
        /\ Cardinality(TrendDays) < 2 => trd.result.none

LegDone == leg.phase = "done" /\ ~leg.result.isNone

\* C21: in the stale-cache tier every row of the five legacy sources with a
\* missing phosphorus or nitrogen value is dropped, so no row of the merged
\* result has a missing pollutant value.
C21_NoMissingPollutant ==
    LegDone => \A i \in 1..Len(leg.result.rows) :
                  leg.result.rows[i].tp # "nan" /\ leg.result.rows[i].tn # "nan"

\* the day loop of this call has ended
LoopEnded == hist.probe_ok /\ pc \notin {"idle", "probe", "fetch"}

\* C22: one remote-tier acquisition issues one data request per day for the
\* last N = 30 days: exactly 30 daily data requests have been made when the
\* day loop has ended after a successful probe.
C22_ThirtyRequests == LoopEnded => day = 30

\* C25: the two canonical cache files are refreshed as a pair: when
\* _update_csv_files reports failure both files hold their pre-refresh
\* contents, and a call that has written one of them has written the other from
\* the same remote batch.
C25_PairAtomic ==
    Done =>
        /\ success = "false" => (wq_file = hist.old_wq /\ st_file = hist.old_st)
        /\ hist.wrote.wq <=> hist.wrote.st
        /\ (hist.wrote.wq /\ hist.wrote.st) =>
              /\ wq_file = to_csv(api_data)
              /\ st_file = to_csv(StationsExtract(api_data).val)

\* C28: the table combined from the daily remote requests contains each
\* measurement record of the remote source at most once, for every response
\* shape, responses whose items carry no wmcymd field included.
C28_RecordsOnce ==
    ~all_data.isNone =>
        \A i, j \in 1..Len(all_data.rows) :
            all_data.rows[i].rec = all_data.rows[j].rec => i = j

\* the region of the first entry of the table, as it is written, whose
\* rectangle contains the point; then the catch-all ranges; then 'other'
FirstWritten(lat, lon) ==
    LET r == FirstRange(lat, lon, region_ranges_written, 1)
    IN IF r # "-" THEN r
       ELSE IF Within(lat, 3700, 3800) /\ Within(lon, 12650, 12750) THEN "Gyeonggi_other"
       ELSE IF Within(lat, 3550, 3650) /\ Within(lon, 12700, 12850) THEN "Chungbuk_other"
       ELSE IF Within(lat, 3500, 3600) /\ Within(lon, 12800, 12900) THEN "Gyeongbuk_other"
       ELSE "other"

\* C23: in the bounding-rectangle fallback a reading is assigned to the first
\* region, in the order the table is written, whose rectangle (bounds
\* inclusive) contains it; a reading in no rectangle is assigned to the first
\* matching coarse catch-all range and otherwise to the single 'other' region.
C23_FirstWrittenRectangle ==
    loc.phase = "done" => loc.region = FirstWritten(loc.lat, loc.lon)

\* the names written in the table and the coarse catch-all buckets
WrittenNames ==
    {region_ranges_written[i].region : i \in 1..Len(region_ranges_written)}
    \cup {"Gyeonggi_other", "Chungbuk_other", "Gyeongbuk_other"}

\* C29: every region name written in the bounding-rectangle table and every
\* coarse catch-all bucket is assigned to some coordinate pair by
\* find_region_by_coordinates: none is shadowed by earlier entries or lost to a
\* duplicate key.
C29_EveryNameReachable ==
    loc.phase = "assigned" => WrittenNames \subseteq loc.regions

\* a reading with both pollutants went through calculate_alert_level
AlertDone == sc.phase = "alert" /\ Present(sc.tp) /\ Present(sc.tn)
\* w_p * (phosphorus / 0.1) + w_n * (nitrogen / 2.0), in millionths
AlertRatio == 9906700 * sc.tp.v + 4665 * sc.tn.v
\* the label of the highest of the breakpoints 20%, ..., 100% the ratio has
\* reached, 'normal' below 20%
AlertBanding ==
    /\ AlertRatio < 200000 => sc.level = "normal"
    /\ (200000 <= AlertRatio /\ AlertRatio < 400000) => sc.level = "level1"
    /\ (400000 <= AlertRatio /\ AlertRatio < 600000) => sc.level = "level2"
    /\ (600000 <= AlertRatio /\ AlertRatio < 800000) => sc.level = "level3"
    /\ (800000 <= AlertRatio /\ AlertRatio < 1000000) => sc.level = "level4"
    /\ 1000000 <= AlertRatio => sc.level = "level5"

\* C24 as stated: the ratio variant classifies the weighted ratio into a set
\* of five labels ('normal' plus four escalating labels) by the breakpoints
\* 20%, 40%, 60%, 80%, 100%: the label of the highest breakpoint reached,
\* 'normal' below 20%.
C24_FiveLabels ==
    AlertDone =>
        /\ sc.level \in {"normal", "level1", "level2", "level3", "level4"}
        /\ AlertBanding

\* C24 amended: the ratio variant classifies the weighted ratio into a set of
\* six labels ('normal' plus the five escalating labels '1단계' .. '5단계')
\* by the breakpoints 20%, 40%, 60%, 80%, 100%: the label of the highest
\* breakpoint reached, 'normal' below 20%.
C24_SixLabels ==
    AlertDone =>
        /\ sc.level \in {"normal", "level1", "level2", "level3", "level4", "level5"}
        /\ AlertBanding

C24_Witness ==
    /\ AlertDone
    /\ sc.tp = Num(0)
    /\ sc.level = "level4"

\* the pipeline has run preprocess_water_quality_data on the reading
Preprocessed == sc.phase \in {"pipeline", "pipeline_none"}

\* C27: for a collected table that has the columns ptNo, ptNm, itemTp, itemTn
\* and a row with a station name and pollutant values in [0, 1000],
\* preprocess_water_quality_data returns a non-null table containing that row,
\* so the pipeline goes on to risk scoring.
C27_PreprocessReturnsTable ==
    (Preprocessed /\ Present(sc.tp) /\ Present(sc.tn)
        /\ 0 <= sc.tp.v /\ sc.tp.v <= 1000 /\ 0 <= sc.tn.v /\ sc.tn.v <= 1000) =>
        /\ sc.phase = "pipeline"
        /\ Present(sc.index)

\* C26: every reading that enters region aggregation was supplied by
\* collect_data: when acquisition or the column mapping fails (collector error,
\* missing pollutant or coordinate column) no reading is fabricated and the
\* loader yields the absent result.
C26_NoFabricatedReading ==
    agg.phase = "spatial" =>
        /\ \A i \in 1..Len(agg.out.df.rows) :
              \E j \in 1..Len(agg.input.rows) : agg.input.rows[j] = agg.out.df.rows[i]
        /\ agg.fault # "none" => agg.out.df.isNone

\* C30: when regions are classified by percentile against the indices of the
\* regions of the same run, a region with no index below its own (the smallest
\* index) receives level 1, and no region receives level 5 unless the run has
\* at least 6 regions.
RegionsClassified == pct.phase = "classified"
C30_SmallestLevel1 ==
    RegionsClassified =>
        /\ \A i \in 1..Len(pct.all_scores) :
              (\A j \in 1..Len(pct.all_scores) : ~Less(pct.all_scores[j], pct.all_scores[i]))
                  => pct.levels[i] = "level1"
        /\ (\E i \in 1..Len(pct.levels) : pct.levels[i] = "level5")
              => Len(pct.all_scores) >= 6
\* A run of six regions whose largest index is in level 5 and smallest in level 1.
C30_Witness ==
    /\ RegionsClassified
    /\ Len(pct.all_scores) = 6
    /\ \E i, j \in 1..6 : /\ pct.levels[i] = "level5"
                          /\ pct.levels[j] = "level1"
                          /\ Less(pct.all_scores[j], pct.all_scores[i])

====
